---- MODULE Spec2Model ----
(***************************************************************************)
(* Session control plane of the breamer browser-streaming gateway.         *)
(*                                                                         *)
(*   SpecBreaker  OperationManager.createCircuitBreaker (OperationManager) *)
(*   SpecFrames   the Page.screencastFrame handlers of the two servers     *)
(*   Spec         ResilientBrowserManager (session map, probes, recovery)  *)
(*                                                                         *)
(* Every await of the source is a point where another callback may run;    *)
(* the code between two awaits is one atomic step.                         *)
(***************************************************************************)
EXTENDS Integers, Sequences, FiniteSets, Bags, TLC

VARIABLES
    \* ---- circuit breaker (closure state of createCircuitBreaker)
    failures,          \* let failures
    lastFailureTime,   \* let lastFailureTime
    isOpen,            \* let isOpen
    now,               \* Date.now()
    cbInflight,        \* operations awaited inside execute()
    cbTrial,           \* awaited operations whose execute() call reset the breaker
    cbCalls,           \* history: execute() calls made
    cbInvoked,         \* history: operations invoked by execute()
    cbSucceeded        \* history: operations that resolved, by kind of call

VARIABLES
    \* ---- frame streaming of one connection
    server,            \* which entry point runs: "ws" or "socketio"
    readyState,        \* ws.readyState
    bufferFull,        \* ws.bufferedAmount > 5 * 1024 * 1024
    heapHigh,          \* memoryManager.getMemoryStats().heapUsedPercent > 90
    frameQueue,        \* const frameQueue (sessionIds of the queued records)
    isSending,         \* let isSending
    retryTimers,       \* pending setTimeout(() => processFrameQueue(), 100)
    immediates,        \* pending setImmediate ack callbacks, in queue order
    emitted,           \* Page.screencastFrame events so far; the n-th has sessionId n
    sent,              \* history: frames handed to ws.send / socket.emit
    acks,              \* history: Page.screencastFrameAck sends, by sessionId
    sendErrors,        \* history: ws.send calls that threw
    dropped            \* history: records shifted out of a full frameQueue

VARIABLES
    \* ---- ResilientBrowserManager
    mode,                  \* launchBrowser: "launch" (puppeteer.launch) or "connect" (puppeteer.connect)
    sessions,              \* this.sessions: clientId -> Session (0: no entry); a Session
                           \* is named by the number of its browser
    healthCheckIntervals,  \* this.healthCheckIntervals: clientId -> timer (0: no entry); a
                           \* timer is named by the Session it was started for
    activeTimers,          \* setInterval timers not cleared
    browser,               \* browser handles: "none", "open", "disconnected", "closed"
    page,                  \* page handles: "none", "open", "closed"
    owner,                 \* the clientId a browser was launched for
    isHealthy,             \* session.isHealthy
    healthCheckFailures,   \* session.healthCheckFailures
    calls,                 \* async calls suspended at an await (a bag of records)
    conn,                  \* client channel: "new", "open", "closed"
    shutdown,              \* cleanupAll: "no", "cleaning", "done"
    probes,                \* history: health-probe timer ticks
    cleaned,               \* history: Sessions a cleanupSession run took through its close steps
    faulted,               \* history: a browser-side step of createSession failed
    idle,                  \* Sessions of the map whose lastActivity lies before the last
                           \* clock advance
    got                    \* the value getSession(clientId) has just returned and its
                           \* caller has not yet looked at: a Session, 0 for null, -1 if none

VARIABLES
    \* ---- what a client sees of its Session: recovery notices and the viewport
    notices,               \* history: session_recovered messages sent, per clientId
    viewport,              \* the viewport of a page, <<width, height>> (<<0, 0>>: not set)
    screencast,            \* the parameters of the screencast a CDP session runs
    vpCalls,               \* updateViewport calls suspended at an await
    vpSeq,                 \* history: updateViewport calls made
    vpResult               \* history: what each updateViewport call left when it returned

VARIABLES
    \* ---- OperationManager.withRetry / safe and the retry loop of createSession
    running,           \* which of them run: "withRetry", "createSession", "safe"
    wrRetries,         \* options.retries
    wrBackoff,         \* options.backoff
    wrPc,              \* withRetry: "start", "race", "delay", "returned", "thrown"
    wrAttempt,         \* let attempt
    wrLastError,       \* let lastError (its message; "null" before any failure)
    wrInvoked,         \* history: operation() invocations
    wrFailed,          \* history: attempts that rejected or timed out
    wrDelays,          \* history: the delays waited, in order
    wrOutcome,         \* the value returned or the message of the error thrown
    csMaxRetries,      \* this.options.maxRetries
    csPc,              \* createSession loop: "start", "attempt", "delay", "returned", "thrown"
    csRetries,         \* let retries
    csDelays,          \* history: the delays waited, in order
    sfHandler,         \* errorHandler: "none", "returns" or "throws"
    sfPc,              \* safe: "start", "awaiting", "returned", "thrown"
    sfOutcome,         \* the value returned or the error thrown
    sfHandled          \* history: errorHandler invocations

VARIABLES
    \* ---- MemoryManager
    frameBuffer,       \* this.frameBuffer: clientId -> frames (<<>>: no entry or no frame)
    mmFrames,          \* history: addFrame calls, per clientId; the n-th frame is named n
    mmChecks,          \* history: checkMemoryPressure runs
    mmChosen,          \* history: the sample of the last run and the action it took
    mmSessions,        \* browserManager.getSessions(): "none", "live", or "broken" when
                       \* the CDP session of the entry rejects commands
    mmCast,            \* the screencast parameters of a client's CDP session
    mmCalls,           \* reduceSessionQuality calls suspended at an await
    mmDone             \* history: the reduceSessionQuality calls that have ended

VARIABLES
    \* ---- command handlers (ResilientMessageHandlers and their dispatchers)
    transport,         \* "socket.io" (index.ts) or "ws" (part_003)
    pageTimeout,       \* config.navigation.pageTimeout, in ticks
    handlers,          \* per received command: the position of its handler
    background,        \* operations still running after withTimeout gave up on them
    replies,           \* history: what was sent to the client, in order
    propagated         \* history: commands whose handle* call rejected

VARIABLES
    \* ---- connection setup of the ws server
    activeConnections, \* the module's Set of clientIds
    channel,           \* per client: "none", "open" or "closed"
    gwPc,              \* per client: where its connection handler stands
    gwSent,            \* history: the error messages sent to the client
    gwLaunched         \* history: createSession was called for the client

VARIABLES
    \* ---- ping / pong of one ws channel, in units of 15 s
    ppNow,             \* the time since the timers were set
    ppFired,           \* the timers that have fired at this instant
    pongReceived,      \* the flag of the connection handler
    pingInFlight,      \* a ping the client has not answered yet
    ppBufferFull,      \* ws.bufferedAmount > 1024 * 1024
    terminated,        \* ws.terminate() was called
    pongSinceCheck     \* history: a pong arrived since the last dead-peer check

opVars == <<running, wrRetries, wrBackoff, wrPc, wrAttempt, wrLastError, wrInvoked,
            wrFailed, wrDelays, wrOutcome, csMaxRetries, csPc, csRetries, csDelays,
            sfHandler, sfPc, sfOutcome, sfHandled>>

mgVars == <<mode, sessions, healthCheckIntervals, activeTimers, browser, page, owner,
            isHealthy, healthCheckFailures, calls, conn, shutdown, probes, cleaned,
            faulted, idle, got, notices, viewport, screencast, vpCalls, vpSeq,
            vpResult>>

\* the screencast of a Session and the updateViewport calls
scVars == <<screencast, vpCalls, vpSeq, vpResult>>

\* what only recoverSession's notice and the viewport operations touch
vpVars == <<notices, viewport, scVars>>

\* what only getSession and the clock touch
gsVars == <<idle, got>>

cbVars == <<failures, lastFailureTime, isOpen, now, cbInflight, cbTrial, cbCalls,
            cbInvoked, cbSucceeded>>

frVars == <<server, readyState, bufferFull, heapHigh, frameQueue, isSending,
            retryTimers, immediates, emitted, sent, acks, sendErrors, dropped>>

mmVars == <<frameBuffer, mmFrames, mmChecks, mmChosen, mmSessions, mmCast, mmCalls, mmDone>>

cmVars == <<transport, pageTimeout, handlers, background, replies, propagated>>

\* the server components around the session manager
gwVars == <<activeConnections, channel, gwPc, gwSent, gwLaunched>>

ppVars == <<ppNow, ppFired, pongReceived, pingInFlight, ppBufferFull, terminated,
            pongSinceCheck>>

\* connection setup and keep-alive of the ws server
xtVars == <<gwVars, ppVars>>

svVars == <<mmVars, cmVars, xtVars>>

vars == <<cbVars, frVars, mgVars, opVars, svVars>>

(***************************************************************************)
(* Circuit breaker                                                         *)
(***************************************************************************)

\* createCircuitBreaker(threshold, resetTimeout): the arguments, scaled down
\* (part_003 passes 10 and 60000, the defaults are 5 and 60000)
threshold == 3
resetTimeout == 2

MaxCalls == 7          \* execute() calls in a run: two trips and a call in between
MaxInflight == 2       \* operations awaited at the same time
MaxTicks == 4          \* clock ticks after the start

\* Date.now() at start: far from the epoch that lastFailureTime = 0 denotes
StartTime == resetTimeout + 1

NeverResets(open, t, last) == FALSE

\* if (isOpen && Date.now() - lastFailureTime > resetTimeout)
ShouldReset(open, t, last) == open /\ t - last > resetTimeout

TripsAbove(f) == f > threshold

\* if (failures >= threshold)
Trips(f) == f >= threshold

BreakerIdle ==
    /\ failures = 0
    /\ lastFailureTime = 0
    /\ isOpen = FALSE
    /\ now = StartTime
    /\ cbInflight = 0
    /\ cbTrial = 0
    /\ cbCalls = 0
    /\ cbInvoked = 0
    /\ cbSucceeded = [plain |-> 0, trial |-> 0]

FramesIdle ==
    /\ server = "ws"
    /\ readyState = "OPEN"
    /\ bufferFull = FALSE
    /\ heapHigh = FALSE
    /\ frameQueue = <<>>
    /\ isSending = FALSE
    /\ retryTimers = 0
    /\ immediates = <<>>
    /\ emitted = 0
    /\ sent = <<>>
    /\ acks = <<>>
    /\ sendErrors = 0
    /\ dropped = {}

NumClients == 1        \* client channels
MaxBrowsers == 3       \* browsers launched in a run
MaxCallsAwaiting == 2  \* manager calls suspended at the same time
MaxProbes == 3         \* health-probe timer ticks in a run

MaxViewportCalls == 2  \* updateViewport calls in a run

Clients == 1..NumClients
Browsers == 1..MaxBrowsers
ViewportCalls == 1..MaxViewportCalls

\* Page.startScreencast parameters (format is always 'jpeg')
Cast(quality, maxWidth, maxHeight, everyNthFrame) ==
    [quality |-> quality, maxWidth |-> maxWidth, maxHeight |-> maxHeight,
     everyNthFrame |-> everyNthFrame]

\* no screencast started, or Page.stopScreencast was the last command
NoCast == Cast(0, 0, 0, 0)

\* initializeScreencast(cdpSession, maxWidth = 1280, maxHeight = 1024); the
\* launch variant takes no dimensions and starts 1280 x 1280 at quality 60
InitializeScreencast(maxWidth, maxHeight) ==
    IF mode = "connect" THEN Cast(50, maxWidth, maxHeight, 2) ELSE Cast(60, 1280, 1280, 2)

\* an updateViewport call that has not returned
NoResult == [status |-> "none", s |-> 0, dims |-> <<0, 0>>, alone |-> FALSE,
             cmds |-> <<>>, viewport |-> <<0, 0>>, screencast |-> NoCast]

ManagerIdle ==
    /\ mode = "connect"
    /\ sessions = [c \in Clients |-> 0]
    /\ healthCheckIntervals = [c \in Clients |-> 0]
    /\ activeTimers = {}
    /\ browser = [b \in Browsers |-> "none"]
    /\ page = [b \in Browsers |-> "none"]
    /\ owner = [b \in Browsers |-> 0]
    /\ isHealthy = [b \in Browsers |-> FALSE]
    /\ healthCheckFailures = [b \in Browsers |-> 0]
    /\ calls = EmptyBag
    /\ conn = [c \in Clients |-> "new"]
    /\ shutdown = "no"
    /\ probes = 0
    /\ cleaned = {}
    /\ faulted = FALSE
    /\ idle = {}
    /\ got = [c \in Clients |-> -1]
    /\ notices = [c \in Clients |-> 0]
    /\ viewport = [b \in Browsers |-> <<0, 0>>]
    /\ screencast = [b \in Browsers |-> NoCast]
    /\ vpCalls = {}
    /\ vpSeq = 0
    /\ vpResult = [n \in ViewportCalls |-> NoResult]

WrIdle ==
    /\ wrRetries = 1
    /\ wrBackoff = 0
    /\ wrPc = "start"
    /\ wrAttempt = 0
    /\ wrLastError = <<"null">>
    /\ wrInvoked = 0
    /\ wrFailed = 0
    /\ wrDelays = <<>>
    /\ wrOutcome = <<"none">>

CsIdle ==
    /\ csMaxRetries = 1
    /\ csPc = "start"
    /\ csRetries = 0
    /\ csDelays = <<>>

SfIdle ==
    /\ sfHandler = "none"
    /\ sfPc = "start"
    /\ sfOutcome = <<"none">>
    /\ sfHandled = 0

OpsIdle == running = {"withRetry"} /\ WrIdle /\ CsIdle /\ SfIdle

MemClients == 1..2     \* the clients the memory manager sees
MaxMemFrames == 3      \* addFrame calls per client
MaxChecks == 2         \* checkMemoryPressure runs
MaxBurstFrames == 12   \* addFrame calls per client in a burst

MemoryIdle ==
    /\ frameBuffer = [c \in MemClients |-> <<>>]
    /\ mmFrames = [c \in MemClients |-> 0]
    /\ mmChecks = 0
    /\ mmChosen = [percent |-> 0, action |-> "none"]
    /\ mmSessions = [c \in MemClients |-> "none"]
    /\ mmCast = [c \in MemClients |-> NoCast]
    /\ mmCalls = {}
    /\ mmDone = {}

MaxCommands == 2       \* commands received on the channel
Cmds == 1..MaxCommands

NoHandler ==
    [type |-> "none", url |-> [scheme |-> "", host |-> ""], pc |-> "none", attempt |-> 0,
     elapsed |-> 0, waitUntil |-> "none", outcome |-> "none", recovery |-> FALSE]

CommandsIdle ==
    /\ transport = "socket.io"
    /\ pageTimeout = 4
    /\ handlers = [id \in Cmds |-> NoHandler]
    /\ background = {}
    /\ replies = <<>>
    /\ propagated = {}

GwClients == 1..2      \* the channels the ws server accepts
MaxPingTime == 12      \* the time the keep-alive timers are followed for, in units

GatewayIdle ==
    /\ activeConnections = {}
    /\ channel = [c \in GwClients |-> "none"]
    /\ gwPc = [c \in GwClients |-> "none"]
    /\ gwSent = [c \in GwClients |-> <<>>]
    /\ gwLaunched = [c \in GwClients |-> FALSE]

PingIdle ==
    /\ ppNow = 0
    /\ ppFired = {}
    /\ pongReceived = TRUE
    /\ pingInFlight = FALSE
    /\ ppBufferFull = FALSE
    /\ terminated = FALSE
    /\ pongSinceCheck = FALSE

ServerIdle == MemoryIdle /\ CommandsIdle /\ GatewayIdle /\ PingIdle

InitBreaker == BreakerIdle /\ FramesIdle /\ ManagerIdle /\ OpsIdle /\ ServerIdle

\* execute(operation) up to its await: reset check, fail fast, or invoke
Execute ==
    /\ cbCalls < MaxCalls
    /\ cbCalls' = cbCalls + 1
    /\ LET reset == ShouldReset(isOpen, now, lastFailureTime)
           open  == IF reset THEN FALSE ELSE isOpen
       IN /\ failures' = IF reset THEN 0 ELSE failures
          /\ isOpen' = open
          /\ IF open
                THEN UNCHANGED <<cbInflight, cbTrial, cbInvoked>>
                ELSE /\ cbInflight < MaxInflight
                     /\ cbInflight' = cbInflight + 1
                     /\ cbTrial' = IF reset THEN cbTrial + 1 ELSE cbTrial
                     /\ cbInvoked' = cbInvoked + 1
    /\ UNCHANGED <<lastFailureTime, now, cbSucceeded, frVars, mgVars, opVars, svVars>>

\* one of the awaited operations settles: that of a call that reset the
\* breaker (trial) or that of another call
Settles(trial) ==
    /\ IF trial THEN cbTrial > 0 ELSE cbInflight > cbTrial
    /\ cbInflight' = cbInflight - 1
    /\ cbTrial' = IF trial THEN cbTrial - 1 ELSE cbTrial

\* the awaited operation resolves
OperationSucceeds ==
    \E trial \in BOOLEAN :
        /\ Settles(trial)
        /\ failures' = 0
        /\ cbSucceeded' = IF trial
                             THEN [cbSucceeded EXCEPT !.trial = @ + 1]
                             ELSE [cbSucceeded EXCEPT !.plain = @ + 1]
        /\ UNCHANGED <<lastFailureTime, isOpen, now, cbCalls, cbInvoked, frVars, mgVars, opVars, svVars>>

\* the awaited operation rejects
OperationFails ==
    \E trial \in BOOLEAN :
        /\ Settles(trial)
        /\ failures' = failures + 1
        /\ lastFailureTime' = now
        /\ isOpen' = (isOpen \/ Trips(failures + 1))
        /\ UNCHANGED <<now, cbCalls, cbInvoked, cbSucceeded, frVars, mgVars, opVars, svVars>>

\* reset()
BreakerReset ==
    /\ failures' = 0
    /\ isOpen' = FALSE
    /\ lastFailureTime' = 0
    /\ UNCHANGED <<now, cbInflight, cbTrial, cbCalls, cbInvoked, cbSucceeded, frVars, mgVars, opVars, svVars>>

Tick ==
    /\ now < StartTime + MaxTicks
    /\ now' = now + 1
    /\ UNCHANGED <<failures, lastFailureTime, isOpen, cbInflight, cbTrial, cbCalls, cbInvoked,
                   cbSucceeded, frVars, mgVars, opVars, svVars>>

NextBreaker ==
    \/ Execute
    \/ OperationSucceeds
    \/ OperationFails
    \/ BreakerReset
    \/ Tick

SpecBreaker == InitBreaker /\ [][NextBreaker]_vars

\* the window of the claim: tripped, and the reset timeout has not elapsed
InWindow == failures >= threshold /\ ~(now - lastFailureTime > resetTimeout)

\* C10: once failures >= threshold, until now - lastFailureTime > resetTimeout
\* execute() invokes no operation and every execute() call fails fast.
C10_NoInvokeWhileTripped ==
    [][InWindow => /\ cbInvoked' = cbInvoked
                   /\ (cbCalls' # cbCalls => isOpen')]_vars

\* three failing calls tripped the breaker and a later call was refused
C10_Witness ==
    /\ InWindow
    /\ cbInvoked = threshold
    /\ cbCalls > cbInvoked

\* an execute() call made while the breaker is Open and the reset timeout
\* has elapsed
ElapsedCall == isOpen /\ now - lastFailureTime > resetTimeout /\ cbCalls' # cbCalls

\* C11 (as stated): the breaker starts Closed with failures = 0; a success
\* while Closed resets failures to 0; an execute() call made when the
\* breaker is Open and now - lastFailureTime > resetTimeout attempts the
\* operation, and after that call's success isOpen = false and failures = 0.
C11_ClosedAfterTrialSuccess ==
    /\ (failures = 0 /\ ~isOpen)
    /\ [][/\ (cbSucceeded' # cbSucceeded /\ ~isOpen) => failures' = 0
          /\ ElapsedCall => cbInvoked' = cbInvoked + 1
          /\ cbSucceeded'.trial # cbSucceeded.trial => (failures' = 0 /\ ~isOpen')]_vars

\* C11 (amended): as above, but the call made after the timeout resets
\* failures and isOpen before it attempts the operation, and on its success
\* failures = 0 while isOpen is false unless failures of overlapping calls
\* re-opened the breaker before the success.
C11_ResetOnElapse ==
    /\ (failures = 0 /\ ~isOpen)
    /\ [][/\ (cbSucceeded' # cbSucceeded /\ ~isOpen) => failures' = 0
          /\ ElapsedCall => (cbInvoked' = cbInvoked + 1 /\ failures' = 0 /\ ~isOpen')
          /\ cbSucceeded'.trial # cbSucceeded.trial => (failures' = 0 /\ (isOpen' => isOpen))]_vars

\* the breaker tripped, the timeout elapsed, and the call made then succeeded
C11_Witness ==
    /\ cbSucceeded.trial > 0
    /\ cbInvoked > threshold
    /\ ~isOpen
    /\ failures = 0

(***************************************************************************)
(* OperationManager.withRetry, OperationManager.safe and the retry loop of *)
(* ResilientBrowserManager.createSession                                   *)
(***************************************************************************)

MaxRetriesOpt == 4     \* largest retries / maxRetries option tried
MaxBackoff == 2        \* largest backoff option tried

wrVars == <<wrRetries, wrBackoff, wrPc, wrAttempt, wrLastError, wrInvoked, wrFailed,
            wrDelays, wrOutcome>>
csVars == <<csMaxRetries, csPc, csRetries, csDelays>>
sfVars == <<sfHandler, sfPc, sfOutcome, sfHandled>>

RECURSIVE Pow2(_)
\* Math.pow(2, n)
Pow2(n) == IF n = 0 THEN 1 ELSE 2 * Pow2(n - 1)

LoopTestIncl(attempt, retries) == attempt <= retries

\* for (...; attempt < retries; ...)
LoopTest(attempt, retries) == attempt < retries

LinearDelay(backoff, attempt) == backoff * (attempt + 1)

ShrinkingDelay(backoff, attempt) == backoff * Pow2(MaxRetriesOpt - attempt)

\* const delay = backoff * Math.pow(2, attempt)
RetryDelay(backoff, attempt) == backoff * Pow2(attempt)

\* the message of the error withTimeout rejects with: it names attempt + 1
TimeoutMessage(attempt) == <<"timeout", attempt + 1>>

\* the message of the error the operation rejects with in a given attempt
OperationMessage(attempt) == <<"error", attempt>>

\* the value the operation resolves with in a given attempt
OperationValue(attempt) == <<"value", attempt>>

\* `Operation failed after ${retries} attempts: ${lastError?.message}`
Exhausted(retries, lastError) ==
    <<"failed", retries, IF lastError = <<"null">> THEN <<"undefined">> ELSE lastError>>

\* the head of withRetry's loop for a value of attempt: invoke the operation
\* and await the race with the timeout, or leave the loop and throw
LoopHead(attempt, lastError) ==
    /\ wrAttempt' = attempt
    /\ IF LoopTest(attempt, wrRetries)
          THEN /\ wrPc' = "race"
               /\ wrInvoked' = wrInvoked + 1
               /\ wrOutcome' = wrOutcome
          ELSE /\ wrPc' = "thrown"
               /\ wrInvoked' = wrInvoked
               /\ wrOutcome' = Exhausted(wrRetries, lastError)

\* withRetry(operation, options) up to its first await
WithRetry ==
    /\ "withRetry" \in running
    /\ wrPc = "start"
    /\ LoopHead(0, wrLastError)
    /\ UNCHANGED <<running, wrRetries, wrBackoff, wrLastError, wrFailed, wrDelays,
                   csVars, sfVars, cbVars, frVars, mgVars, svVars>>

\* await this.withTimeout(operation(), timeout, ...) settles: the operation
\* resolved or rejected first, or the timer fired first
RaceSettles ==
    /\ wrPc = "race"
    /\ \E out \in {"resolved", "rejected", "timeout"} :
        IF out = "resolved"
           THEN /\ wrPc' = "returned"
                /\ wrOutcome' = OperationValue(wrAttempt)
                /\ UNCHANGED <<wrAttempt, wrLastError, wrInvoked, wrFailed, wrDelays>>
           ELSE LET error == IF out = "rejected" THEN OperationMessage(wrAttempt)
                                                 ELSE TimeoutMessage(wrAttempt)
                IN /\ wrLastError' = error
                   /\ wrFailed' = wrFailed + 1
                   /\ IF wrAttempt < wrRetries - 1
                         THEN /\ wrPc' = "delay"
                              /\ wrDelays' = Append(wrDelays, RetryDelay(wrBackoff, wrAttempt))
                              /\ UNCHANGED <<wrAttempt, wrInvoked, wrOutcome>>
                         ELSE /\ LoopHead(wrAttempt + 1, error)
                              /\ UNCHANGED wrDelays
    /\ UNCHANGED <<running, wrRetries, wrBackoff, csVars, sfVars, cbVars, frVars, mgVars, svVars>>

\* await new Promise(resolve => setTimeout(resolve, delay)) settles
BackoffElapses ==
    /\ wrPc = "delay"
    /\ LoopHead(wrAttempt + 1, wrLastError)
    /\ UNCHANGED <<running, wrRetries, wrBackoff, wrLastError, wrFailed, wrDelays,
                   csVars, sfVars, cbVars, frVars, mgVars, svVars>>

\* await this.delay(1000 * retries)
CreateDelay(retries) == 1000 * retries

\* while (retries < this.options.maxRetries)
CreateLoopHead(retries) ==
    /\ csRetries' = retries
    /\ csPc' = IF retries < csMaxRetries THEN "attempt" ELSE "thrown"

\* createSession(clientId) up to the first await of its first attempt
CreateSessionLoop ==
    /\ "createSession" \in running
    /\ csPc = "start"
    /\ CreateLoopHead(0)
    /\ UNCHANGED <<running, csMaxRetries, csDelays, wrVars, sfVars, cbVars, frVars, mgVars, svVars>>

\* the try block of an attempt ends: the session is returned, or one of its
\* awaits rejected and the catch counts the retry
LoopAttemptSettles ==
    /\ csPc = "attempt"
    /\ \E ok \in BOOLEAN :
        IF ok
           THEN /\ csPc' = "returned"
                /\ UNCHANGED <<csRetries, csDelays>>
           ELSE IF csRetries + 1 < csMaxRetries
                   THEN /\ csRetries' = csRetries + 1
                        /\ csPc' = "delay"
                        /\ csDelays' = Append(csDelays, CreateDelay(csRetries + 1))
                   ELSE /\ CreateLoopHead(csRetries + 1)
                        /\ UNCHANGED csDelays
    /\ UNCHANGED <<running, csMaxRetries, wrVars, sfVars, cbVars, frVars, mgVars, svVars>>

\* await this.delay(...) settles
LoopDelayElapses ==
    /\ csPc = "delay"
    /\ CreateLoopHead(csRetries)
    /\ UNCHANGED <<running, csMaxRetries, csDelays, wrVars, sfVars, cbVars, frVars, mgVars, svVars>>

\* errorHandler(err) throws out of the catch block
HandlerThrows(handler) == handler = "throws"

\* safe(operation, fallback, errorHandler) up to await operation()
Safe ==
    /\ "safe" \in running
    /\ sfPc = "start"
    /\ sfPc' = "awaiting"
    /\ UNCHANGED <<running, sfHandler, sfOutcome, sfHandled, wrVars, csVars, cbVars,
                   frVars, mgVars, svVars>>

\* await operation() settles
SafeSettles ==
    /\ sfPc = "awaiting"
    /\ \E ok \in BOOLEAN :
        IF ok
           THEN /\ sfPc' = "returned"
                /\ sfOutcome' = <<"value">>
                /\ UNCHANGED sfHandled
           ELSE /\ sfHandled' = IF sfHandler = "none" THEN sfHandled ELSE sfHandled + 1
                /\ IF HandlerThrows(sfHandler)
                      THEN /\ sfPc' = "thrown"
                           /\ sfOutcome' = <<"handlerError">>
                      ELSE /\ sfPc' = "returned"
                           /\ sfOutcome' = <<"fallback">>
    /\ UNCHANGED <<running, sfHandler, wrVars, csVars, cbVars, frVars, mgVars, svVars>>

InitOps ==
    /\ BreakerIdle
    /\ FramesIdle
    /\ ManagerIdle
    /\ ServerIdle
    /\ running \in {{"withRetry"}, {"createSession"}, {"safe"}, {"withRetry", "createSession"}}
    /\ IF "withRetry" \in running
          THEN /\ wrRetries \in 0..MaxRetriesOpt
               /\ wrBackoff \in 0..MaxBackoff
               /\ wrPc = "start"
               /\ wrAttempt = 0
               /\ wrLastError = <<"null">>
               /\ wrInvoked = 0
               /\ wrFailed = 0
               /\ wrDelays = <<>>
               /\ wrOutcome = <<"none">>
          ELSE WrIdle
    /\ IF "createSession" \in running
          THEN /\ csMaxRetries \in 1..MaxRetriesOpt
               /\ csPc = "start"
               /\ csRetries = 0
               /\ csDelays = <<>>
          ELSE CsIdle
    /\ IF "safe" \in running
          THEN /\ sfHandler \in {"none", "returns", "throws"}
               /\ sfPc = "start"
               /\ sfOutcome = <<"none">>
               /\ sfHandled = 0
          ELSE SfIdle

NextOps ==
    \/ WithRetry
    \/ RaceSettles
    \/ BackoffElapses
    \/ CreateSessionLoop
    \/ LoopAttemptSettles
    \/ LoopDelayElapses
    \/ Safe
    \/ SafeSettles

SpecOps == InitOps /\ [][NextOps]_vars

\* C12: withRetry invokes op at most retries times; it returns the result of
\* the first attempt that succeeds, with no attempt after it; it throws an
\* error carrying the last attempt's message exactly when all retries
\* attempts rejected or timed out.
C12_WithRetryOutcome ==
    /\ wrInvoked <= wrRetries
    /\ wrPc = "returned" =>
          /\ wrOutcome = OperationValue(wrAttempt)
          /\ wrFailed = wrAttempt
          /\ wrInvoked = wrAttempt + 1
    /\ wrPc = "thrown" =>
          /\ wrFailed = wrRetries
          /\ wrInvoked = wrRetries
          /\ wrRetries > 0 =>
                /\ wrOutcome = <<"failed", wrRetries, wrLastError>>
                /\ wrLastError \in {OperationMessage(wrRetries - 1),
                                    TimeoutMessage(wrRetries - 1)}
    /\ (wrPc # "start" /\ wrFailed = wrRetries) => wrPc = "thrown"

\* the third attempt succeeded after a rejection or timeout of the first two,
\* with a fourth attempt allowed
C12_Witness ==
    /\ wrPc = "returned"
    /\ wrRetries = 4
    /\ wrAttempt = 2
    /\ wrInvoked = 3

\* C13 (as stated): the delay before attempt i (0-based) is backoff * 2^i;
\* stated here only for the attempts a delay precedes (wrDelays[i] is the
\* delay waited before attempt i).
C13_DelayBeforeAttempt ==
    \A i \in 1..Len(wrDelays) : wrDelays[i] = wrBackoff * Pow2(i)

\* C13 (amended): the delay after failed attempt i (0-based), that is before
\* attempt i + 1, is backoff * 2^i for every i < retries - 1; no delay
\* precedes attempt 0 and none follows the last attempt.
C13_DelayAfterAttempt ==
    /\ \A i \in 1..Len(wrDelays) : wrDelays[i] = wrBackoff * Pow2(i - 1)
    /\ Len(wrDelays) = IF wrPc = "thrown" /\ wrRetries > 0 THEN wrFailed - 1 ELSE wrFailed

\* three delays were waited with backoff 2
C13_Witness ==
    /\ wrBackoff = 2
    /\ wrRetries = 4
    /\ Len(wrDelays) = 3
    /\ wrPc = "race"

Nondecreasing(s) == \A i \in 2..Len(s) : s[i] >= s[i - 1]

\* C14: in withRetry and in createSession's retry loop the delay waited
\* before the i-th retry is at least the delay waited before the (i-1)-th.
C14_DelaysNondecreasing ==
    /\ Nondecreasing(wrDelays)
    /\ Nondecreasing(csDelays)

\* both loops waited before a third retry
C14_Witness ==
    /\ Len(wrDelays) = 3
    /\ wrBackoff > 0
    /\ Len(csDelays) = 3

\* C15: safe never propagates an error: whenever the operation fails it
\* invokes errorHandler (if given) and returns fallback.
C15_SafeNeverPropagates ==
    /\ sfPc # "thrown"
    /\ (sfPc = "returned" /\ sfOutcome # <<"value">>) =>
          /\ sfOutcome = <<"fallback">>
          /\ sfHandler # "none" => sfHandled = 1

(***************************************************************************)
(* MemoryManager                                                           *)
(***************************************************************************)

HEAP_THRESHOLD_PERCENT == 85
CRITICAL_HEAP_PERCENT == 95
FRAME_BUFFER_LIMIT == 10

\* values of stats.heapUsedPercent around the two thresholds
HeapSamples == {50, 84, 85, 86, 94, 95, 96}

\* checkMemoryPressure: the branch taken for a sample
ChooseAction(percent) ==
    IF percent > CRITICAL_HEAP_PERCENT THEN "emergency"
    ELSE IF percent > HEAP_THRESHOLD_PERCENT THEN "cleanup"
    ELSE "none"

KeepFirst2(frames) == SubSeq(frames, 1, IF Len(frames) > 2 THEN 2 ELSE Len(frames))

\* clearFrameBuffers: if (frames.length > 2) frames.slice(-2)
KeepLast2(frames) ==
    IF Len(frames) > 2 THEN SubSeq(frames, Len(frames) - 1, Len(frames)) ELSE frames

\* the commands reduceSessionQuality sends
StopCmd == [cmd |-> "Page.stopScreencast", params |-> NoCast]
StartLowCmd == [cmd |-> "Page.startScreencast", params |-> Cast(30, 1024, 768, 2)]

\* reduceSessionQuality(clientId, session) of run k, at an await
QualityCall(c, k, pc, cmds) == [c |-> c, k |-> k, pc |-> pc, cmds |-> cmds]

\* a command takes effect only on a CDP session that is alive
Applied(c, params) == IF mmSessions[c] = "live" THEN [mmCast EXCEPT ![c] = params] ELSE mmCast

\* frames.push(frame) without the limit
PushOnly(frames, frame) == Append(frames, frame)

\* frames.push(frame); if (frames.length > this.FRAME_BUFFER_LIMIT) frames.shift()
PushFrame(frames, frame) ==
    IF Len(Append(frames, frame)) > FRAME_BUFFER_LIMIT
       THEN Tail(Append(frames, frame))
       ELSE Append(frames, frame)

\* addFrame(clientId, frame), at most max calls per client
AddFrameWithin(c, max) ==
    /\ mmFrames[c] < max
    /\ mmFrames' = [mmFrames EXCEPT ![c] = @ + 1]
    /\ frameBuffer' = [frameBuffer EXCEPT ![c] = PushFrame(@, mmFrames[c] + 1)]
    /\ UNCHANGED <<mmChecks, mmChosen, mmSessions, mmCast, mmCalls, mmDone,
                   cbVars, frVars, mgVars, opVars, cmVars, xtVars>>

\* addFrame(clientId, frame)
AddFrame(c) == AddFrameWithin(c, MaxMemFrames)

\* addFrame(clientId, frame) in a stream long enough to fill the buffer
AddFrameBurst(c) == AddFrameWithin(c, MaxBurstFrames)

\* clearClientFrames(clientId), called when the client's channel closes
ClearClientFrames(c) ==
    /\ frameBuffer[c] # <<>>
    /\ frameBuffer' = [frameBuffer EXCEPT ![c] = <<>>]
    /\ UNCHANGED <<mmFrames, mmChecks, mmChosen, mmSessions, mmCast, mmCalls, mmDone,
                   cbVars, frVars, mgVars, opVars, cmVars, xtVars>>

\* the session manager installs a Session for the client and the server
\* starts its screencast
SessionCreated(c) ==
    /\ mmSessions[c] = "none"
    /\ mmSessions' = [mmSessions EXCEPT ![c] = "live"]
    /\ mmCast' = [mmCast EXCEPT ![c] = InitializeScreencast(1440, 1880)]
    /\ UNCHANGED <<frameBuffer, mmFrames, mmChecks, mmChosen, mmCalls, mmDone,
                   cbVars, frVars, mgVars, opVars, cmVars, xtVars>>

\* the browser of the client's Session drops: its CDP session rejects commands
SessionBreaks(c) ==
    /\ mmSessions[c] = "live"
    /\ mmSessions' = [mmSessions EXCEPT ![c] = "broken"]
    /\ UNCHANGED <<frameBuffer, mmFrames, mmChecks, mmChosen, mmCast, mmCalls, mmDone,
                   cbVars, frVars, mgVars, opVars, cmVars, xtVars>>

\* the memory-check timer fires with a sample: checkMemoryPressure runs
\* performCleanup or emergencyCleanup up to the first await of each
\* reduceSessionQuality (global.gc is not modelled)
CheckMemoryPressure(percent) ==
    /\ mmChecks < MaxChecks
    /\ mmChecks' = mmChecks + 1
    /\ mmChosen' = [percent |-> percent, action |-> ChooseAction(percent)]
    /\ LET action == ChooseAction(percent)
           mapped == {c \in MemClients : mmSessions[c] # "none"}
       IN /\ frameBuffer' =
                IF action = "emergency" THEN [c \in MemClients |-> <<>>]
                ELSE IF action = "cleanup"
                     THEN [c \in MemClients |-> KeepLast2(frameBuffer[c])]
                     ELSE frameBuffer
          /\ mmCalls' =
                IF action = "emergency"
                   THEN mmCalls \cup
                        {QualityCall(c, mmChecks + 1, "stop", <<StopCmd>>) : c \in mapped}
                   ELSE mmCalls
          /\ mmCast' =
                IF action = "emergency"
                   THEN [c \in MemClients |->
                            IF mmSessions[c] = "live" THEN NoCast ELSE mmCast[c]]
                   ELSE mmCast
    /\ UNCHANGED <<mmFrames, mmSessions, mmDone, cbVars, frVars, mgVars, opVars, cmVars, xtVars>>

\* await session.cdpSession.send('Page.stopScreencast').catch(() => {})
\* settles: Page.startScreencast goes out with the reduced parameters
QualityStopSettles(call) ==
    /\ call \in mmCalls
    /\ call.pc = "stop"
    /\ mmCalls' = (mmCalls \ {call}) \cup
                     {[call EXCEPT !.pc = "start", !.cmds = Append(@, StartLowCmd)]}
    /\ mmCast' = Applied(call.c, StartLowCmd.params)
    /\ UNCHANGED <<frameBuffer, mmFrames, mmChecks, mmChosen, mmSessions, mmDone,
                   cbVars, frVars, mgVars, opVars, cmVars, xtVars>>

\* await session.cdpSession.send('Page.startScreencast', ...) settles: the
\* call ends, a rejection is logged
QualityStartSettles(call) ==
    /\ call \in mmCalls
    /\ call.pc = "start"
    /\ mmCalls' = mmCalls \ {call}
    /\ mmDone' = mmDone \cup {[c |-> call.c, k |-> call.k, cmds |-> call.cmds,
                               failed |-> mmSessions[call.c] # "live"]}
    /\ UNCHANGED <<frameBuffer, mmFrames, mmChecks, mmChosen, mmSessions, mmCast,
                   cbVars, frVars, mgVars, opVars, cmVars, xtVars>>

InitMemory ==
    /\ BreakerIdle
    /\ FramesIdle
    /\ ManagerIdle
    /\ OpsIdle
    /\ MemoryIdle
    /\ CommandsIdle
    /\ GatewayIdle
    /\ PingIdle

NextMemory ==
    \/ \E c \in MemClients : AddFrame(c)
    \/ \E c \in MemClients : ClearClientFrames(c)
    \/ \E c \in MemClients : SessionCreated(c)
    \/ \E c \in MemClients : SessionBreaks(c)
    \/ \E percent \in HeapSamples : CheckMemoryPressure(percent)
    \/ \E call \in mmCalls : QualityStopSettles(call)
    \/ \E call \in mmCalls : QualityStartSettles(call)

SpecMemory == InitMemory /\ [][NextMemory]_vars

InitBuffer == InitMemory

NextBuffer ==
    \/ \E c \in MemClients : AddFrameBurst(c)
    \/ \E c \in MemClients : ClearClientFrames(c)

SpecBuffer == InitBuffer /\ [][NextBuffer]_vars

\* the frames.length most recent of the frames 1..n
LastFrames(n, len) == [i \in 1..len |-> n - len + i]

\* C40: after every addFrame the client's buffer holds at most
\* FRAME_BUFFER_LIMIT frames and ends with the frame just added, the oldest
\* frame being the one evicted; clearClientFrames empties only the buffer of
\* its client; either call leaves the buffers of the other clients as they are.
C40_BufferBounded ==
    [][\A c \in MemClients :
          /\ Len(frameBuffer'[c]) <= FRAME_BUFFER_LIMIT
          /\ mmFrames'[c] # mmFrames[c] =>
                /\ frameBuffer'[c] # <<>>
                /\ frameBuffer'[c][Len(frameBuffer'[c])] = mmFrames'[c]
                /\ frameBuffer'[c] =
                      IF Len(frameBuffer[c]) < FRAME_BUFFER_LIMIT
                         THEN Append(frameBuffer[c], mmFrames'[c])
                         ELSE Append(Tail(frameBuffer[c]), mmFrames'[c])
                /\ \A o \in MemClients \ {c} : frameBuffer'[o] = frameBuffer[o]
          /\ (mmFrames' = mmFrames /\ frameBuffer'[c] # frameBuffer[c]) =>
                /\ frameBuffer'[c] = <<>>
                /\ \A o \in MemClients \ {c} : frameBuffer'[o] = frameBuffer[o]]_vars

\* a buffer that has evicted frames, next to one that was cleared
C40_Witness ==
    \E c1, c2 \in MemClients :
        /\ mmFrames[c1] = MaxBurstFrames
        /\ frameBuffer[c1] = LastFrames(MaxBurstFrames, FRAME_BUFFER_LIMIT)
        /\ mmFrames[c2] > 0
        /\ frameBuffer[c2] = <<>>

\* C24: the memory check chooses its action from heapUsedPercent p as:
\* p < 85 no action, 85 <= p < 95 cleanup, p >= 95 emergency cleanup.
C24_ActionByPercent ==
    mmChecks > 0 =>
        mmChosen.action = IF mmChosen.percent < 85 THEN "none"
                          ELSE IF mmChosen.percent < 95 THEN "cleanup"
                          ELSE "emergency"

\* checkMemoryPressure runs in this step and takes the action
Takes(action) == mmChecks' = mmChecks + 1 /\ mmChosen'.action = action

\* C25: a cleanup leaves every frame buffer with its min(2, length) most
\* recent frames in their order; an emergency leaves all frame buffers empty
\* and, for every Session of the map, sends Page.stopScreencast and then
\* Page.startScreencast with quality 30, 1024 x 768, everyNthFrame 2,
\* whatever happens to the other Sessions.
C25_MemoryActions ==
    [][/\ Takes("cleanup") =>
            \A c \in MemClients :
                LET frames == frameBuffer[c]
                    n == IF Len(frames) < 2 THEN Len(frames) ELSE 2
                IN frameBuffer'[c] = SubSeq(frames, Len(frames) - n + 1, Len(frames))
       /\ Takes("emergency") =>
            /\ \A c \in MemClients : frameBuffer'[c] = <<>>
            /\ \A c \in MemClients :
                  mmSessions[c] # "none" <=>
                      QualityCall(c, mmChecks', "stop", <<StopCmd>>) \in mmCalls' \ mmCalls
       /\ \A call \in mmCalls :
            call.pc = "stop" =>
                \/ call \in mmCalls'
                \/ [call EXCEPT !.pc = "start", !.cmds = <<StopCmd, StartLowCmd>>] \in mmCalls'
       /\ \A call \in mmCalls' : call.pc = "start" => call.cmds = <<StopCmd, StartLowCmd>>
       /\ \A done \in mmDone' : done.cmds = <<StopCmd, StartLowCmd>>]_vars

\* an emergency with two Sessions, one of them broken: both restarts were
\* sent and the live Session streams with the reduced parameters
C25_Witness ==
    /\ mmChosen.action = "emergency"
    /\ \E c1, c2 \in MemClients :
          /\ c1 # c2
          /\ [c |-> c1, k |-> mmChecks, cmds |-> <<StopCmd, StartLowCmd>>, failed |-> TRUE]
                \in mmDone
          /\ [c |-> c2, k |-> mmChecks, cmds |-> <<StopCmd, StartLowCmd>>, failed |-> FALSE]
                \in mmDone
          /\ mmCast[c2] = Cast(30, 1024, 768, 2)
    /\ \A c \in MemClients : frameBuffer[c] = <<>>

(***************************************************************************)
(* Command handlers: the message dispatchers of the two servers and        *)
(* ResilientMessageHandlers. Times are in ticks of 5000 ms. config.js is   *)
(* not among the sources: the configured values are the defaults of the    *)
(* configuration table of the specification, pageTimeout (which has no     *)
(* default there) is drawn from PageTimeouts                               *)
(***************************************************************************)

Transports == {"socket.io", "ws"}

primaryTimeout == 4        \* config.navigation.primaryTimeout (20000 ms)
fallbackTimeout == 3       \* config.navigation.fallbackTimeout (15000 ms)
NavRetries == 3            \* config.navigation.retries
OpRetries == 2             \* config.operations.defaultRetries
PageTimeouts == {4, 6}     \* config.navigation.pageTimeout (20000 or 30000 ms)

NoUrl == [scheme |-> "", host |-> ""]

Urls == {[scheme |-> "", host |-> "example.com"],
         [scheme |-> "http://", host |-> "example.com"]}

\* url.startsWith('http') ? url : `https://${url}`
TargetUrl(url) ==
    IF url.scheme \in {"http://", "https://"} THEN url ELSE [url EXCEPT !.scheme = "https://"]

\* the message types the dispatcher of the server has a handler for
CommandTypes ==
    IF transport = "socket.io" THEN {"navigate", "click", "hover"}
                               ELSE {"navigate", "click", "heartbeat"}

AllCommandTypes == {"navigate", "click", "hover", "heartbeat"}

\* message types no case of the ws dispatcher names
UnknownTypes == {"teleport"}

\* the event (socket.io) or type field (ws) of a handler's replies
ReplyType(type) == IF type = "navigate" THEN "navigation" ELSE type

Reply(id, by, type, status, recoverable, url) ==
    [id |-> id, by |-> by, type |-> type, status |-> status, recoverable |-> recoverable,
     url |-> url, error |-> "none"]

Min(a, b) == IF a < b THEN a ELSE b

\* how long page.goto can take under its own timeout and the withTimeout
\* around it, and the timeout withRetry puts on an attempt
NavLimits ==
    IF transport = "socket.io"
       THEN [primary |-> Min(primaryTimeout, pageTimeout),
             fallback |-> Min(fallbackTimeout, fallbackTimeout + 1),
             attempt |-> pageTimeout + 1]
       ELSE [primary |-> Min(6, 7), fallback |-> Min(6, 7), attempt |-> 8]

\* the attempts the handler makes: the retries of its withRetry, one under safe
Retries(type) ==
    IF transport = "socket.io"
       THEN IF type = "navigate" THEN NavRetries
            ELSE IF type = "click" THEN OpRetries
            ELSE 1
       ELSE IF type = "navigate" THEN 2 ELSE 1

\* what surrounds the operation in the handler: a try / catch around
\* withRetry, OperationManager.safe, or nothing
Guard(type) ==
    IF transport = "socket.io"
       THEN IF type = "hover" THEN "none" ELSE "catch"
       ELSE IF type = "navigate" THEN "none" ELSE "safe"

\* the operation has a catch of its own that replies and rethrows
InnerCatch(type) ==
    \/ transport = "socket.io" /\ type = "hover"
    \/ transport = "ws" /\ type = "navigate"

FirstPc(type) == IF type = "navigate" THEN "primary" ELSE "op"

\* the waitUntil of the page.goto an attempt starts with
FirstWait(type) == IF type = "navigate" THEN "networkidle0" ELSE "none"

Success(id) ==
    Reply(id, "handler", ReplyType(handlers[id].type), "success", FALSE,
          IF handlers[id].type = "navigate" THEN TargetUrl(handlers[id].url) ELSE NoUrl)

\* the reply of the operation's own catch
InnerError(id) ==
    IF InnerCatch(handlers[id].type)
       THEN <<Reply(id, "handler", ReplyType(handlers[id].type), "error", FALSE, NoUrl)>>
       ELSE <<>>

\* if (!session): the dispatcher's reply
SessionNotAvailable(id) ==
    [Reply(id, "dispatcher", IF transport = "socket.io" THEN "error" ELSE handlers[id].type,
           "error", FALSE, NoUrl)
       EXCEPT !.error = "Session not available"]

\* default: sendError(ws, message.type, `Unknown message type: ${message.type}`)
UnknownType(id) ==
    [Reply(id, "dispatcher", handlers[id].type, "error", FALSE, NoUrl)
       EXCEPT !.error = "Unknown message type"]

\* sendHeartbeat(ws)
Heartbeat(id) == Reply(id, "handler", "heartbeat", "none", FALSE, NoUrl)

\* the catch of the dispatcher around the handler
Unhandled(id) ==
    IF transport = "socket.io"
       THEN Reply(id, "dispatcher", "error", "error", TRUE, NoUrl)
       ELSE Reply(id, "dispatcher", "message", "error", FALSE, NoUrl)

NoRecoverable(id) ==
    Reply(id, "handler", ReplyType(handlers[id].type), "error", FALSE, NoUrl)

\* the error envelope of the handler's catch
ErrorEnvelope(id) ==
    Reply(id, "handler", ReplyType(handlers[id].type), "error", TRUE, NoUrl)

Ends(id, outcome) ==
    [handlers EXCEPT ![id].pc = "done", ![id].outcome = outcome, ![id].elapsed = 0]

cmFrame == <<transport, pageTimeout, cbVars, frVars, mgVars, opVars, mmVars, xtVars>>

\* socket.on(type) / ws.on('message'): the handler starts and awaits getSession
Receive(type, url) ==
    /\ type \in CommandTypes
    /\ url \in (IF type = "navigate" THEN Urls ELSE {NoUrl})
    /\ \E id \in Cmds :
          /\ handlers[id].type = "none"
          /\ \A k \in Cmds : k < id => handlers[k].type # "none"
          /\ handlers' = [handlers EXCEPT ![id] =
                [NoHandler EXCEPT !.type = type, !.url = url, !.pc = "getSession"]]
    /\ UNCHANGED <<background, replies, propagated, cmFrame>>

\* a message of a type the switch of the ws dispatcher has no case for
ReceiveUnknown(type) ==
    /\ transport = "ws"
    /\ type \in UnknownTypes
    /\ \E id \in Cmds :
          /\ handlers[id].type = "none"
          /\ \A k \in Cmds : k < id => handlers[k].type # "none"
          /\ handlers' = [handlers EXCEPT ![id] =
                [NoHandler EXCEPT !.type = type, !.pc = "getSession"]]
    /\ UNCHANGED <<background, replies, propagated, cmFrame>>

\* await browserManager.getSession(clientId) returns, having run
\* recoverSession or not: without a session the dispatcher replies; a
\* heartbeat is answered at once and so is a type without a case; otherwise
\* handle* runs up to its first await (page.goto, page.mouse.click,
\* page.mouse.move)
Dispatch(id, found, recovery) ==
    /\ handlers[id].pc = "getSession"
    /\ LET ends(outcome) == [Ends(id, outcome) EXCEPT ![id].recovery = recovery]
       IN IF ~found
          THEN /\ replies' = Append(replies, SessionNotAvailable(id))
               /\ handlers' = ends("unavailable")
          ELSE IF handlers[id].type = "heartbeat"
          THEN /\ replies' = Append(replies, Heartbeat(id))
               /\ handlers' = ends("ok")
          ELSE IF handlers[id].type \in UnknownTypes
          THEN /\ replies' = Append(replies, UnknownType(id))
               /\ handlers' = ends("unknown")
          ELSE /\ handlers' = [handlers EXCEPT ![id].pc = FirstPc(handlers[id].type),
                                               ![id].waitUntil = FirstWait(handlers[id].type),
                                               ![id].recovery = recovery]
               /\ UNCHANGED replies
    /\ UNCHANGED <<background, propagated, cmFrame>>

\* getSession finds a healthy Session in the map, or none: it returns at once
SessionReturned(id, found) == Dispatch(id, found, FALSE)

\* getSession finds a Session that is not healthy: it runs recoverSession
\* (cleanup, then createSession with a new browser) and returns the new
\* Session, or null when the recovery failed
SessionRecovered(id, found) == Dispatch(id, found, TRUE)

\* the operation resolves: it sends the success reply and the handler returns
Succeeds(id) ==
    /\ replies' = Append(replies, Success(id))
    /\ handlers' = Ends(id, "ok")
    /\ UNCHANGED propagated

\* the last attempt has failed: the handler's catch sends the error envelope
\* (handleNavigate then resets the page), safe's errorHandler sends its
\* reply, or the error leaves the handler and the dispatcher's catch replies
RetriesExhausted(id, inner) ==
    LET type == handlers[id].type
    IN CASE Guard(type) = "catch" ->
               /\ replies' = replies \o inner \o <<ErrorEnvelope(id)>>
               /\ handlers' = [Ends(id, "failed") EXCEPT
                                  ![id].pc = IF type = "navigate" THEN "reset" ELSE "done"]
               /\ UNCHANGED propagated
         [] Guard(type) = "safe" ->
               /\ replies' = replies \o inner \o <<NoRecoverable(id)>>
               /\ handlers' = Ends(id, "failed")
               /\ UNCHANGED propagated
         [] OTHER ->
               /\ replies' = replies \o inner \o <<Unhandled(id)>>
               /\ handlers' = Ends(id, "failed")
               /\ propagated' = propagated \cup {id}

\* withRetry's catch: backoff before the next attempt, or the throw after
\* the last one
AttemptRejected(id, inner) ==
    IF handlers[id].attempt + 1 < Retries(handlers[id].type)
       THEN /\ handlers' = [handlers EXCEPT ![id].pc = "backoff", ![id].elapsed = 0]
            /\ replies' = replies \o inner
            /\ UNCHANGED propagated
       ELSE RetriesExhausted(id, inner)

\* page.goto(targetUrl, {waitUntil: 'networkidle0'}) resolves
PrimarySucceeds(id) ==
    /\ handlers[id].pc = "primary"
    /\ Succeeds(id)
    /\ UNCHANGED <<background, cmFrame>>

\* it rejects, or its withTimeout does, d ticks into the attempt: the
\* fallback page.goto(targetUrl, {waitUntil: 'domcontentloaded'}) starts
PrimaryFails(id, d) ==
    /\ handlers[id].pc = "primary"
    /\ d \in 1..NavLimits.primary
    /\ handlers' = [handlers EXCEPT ![id].pc = "fallback", ![id].elapsed = d,
                                    ![id].waitUntil = "domcontentloaded"]
    /\ UNCHANGED <<background, replies, propagated, cmFrame>>

\* the fallback resolves before withRetry's timeout
FallbackSucceeds(id) ==
    /\ handlers[id].pc = "fallback"
    /\ Succeeds(id)
    /\ UNCHANGED <<background, cmFrame>>

\* the fallback rejects before withRetry's timeout: the attempt has failed
FallbackFails(id) ==
    /\ handlers[id].pc = "fallback"
    /\ AttemptRejected(id, InnerError(id))
    /\ UNCHANGED <<background, cmFrame>>

\* page.mouse.click / page.mouse.move resolves
OpSucceeds(id) ==
    /\ handlers[id].pc = "op"
    /\ Succeeds(id)
    /\ UNCHANGED <<background, cmFrame>>

\* page.mouse.click / page.mouse.move rejects
OpFails(id) ==
    /\ handlers[id].pc = "op"
    /\ AttemptRejected(id, InnerError(id))
    /\ UNCHANGED <<background, cmFrame>>

\* the timeout promise of withTimeout wins the race: under withRetry the
\* attempt has failed while its operation keeps running; under safe (ws
\* click) only the click itself keeps running, which sends nothing. A
\* navigation can reach the timeout only in its fallback, when the ticks
\* spent on the primary strategy and the longest fallback exceed it
AttemptTimesOut(id) ==
    /\ \/ handlers[id].pc = "op"
       \/ /\ handlers[id].pc = "fallback"
          /\ handlers[id].elapsed + NavLimits.fallback > NavLimits.attempt
    /\ background' =
          IF Guard(handlers[id].type) = "safe"
             THEN background
             ELSE background \cup {[id |-> id, attempt |-> handlers[id].attempt]}
    /\ AttemptRejected(id, <<>>)
    /\ UNCHANGED cmFrame

\* the backoff delay of withRetry ends: the next attempt starts
BackoffEnds(id) ==
    /\ handlers[id].pc = "backoff"
    /\ handlers' = [handlers EXCEPT ![id].pc = FirstPc(handlers[id].type),
                                    ![id].waitUntil = FirstWait(handlers[id].type),
                                    ![id].attempt = @ + 1]
    /\ UNCHANGED <<background, replies, propagated, cmFrame>>

\* await page.goto('about:blank', { timeout: 5000 }) settles either way
ResetSettles(id) ==
    /\ handlers[id].pc = "reset"
    /\ handlers' = [handlers EXCEPT ![id].pc = "done"]
    /\ UNCHANGED <<background, replies, propagated, cmFrame>>

\* an operation that withRetry gave up on settles: resolved, it goes on to
\* send its success reply; rejected, its own catch (if any) replies
BackgroundSettles(id, attempt, ok) ==
    /\ [id |-> id, attempt |-> attempt] \in background
    /\ background' = background \ {[id |-> id, attempt |-> attempt]}
    /\ replies' = IF ok THEN Append(replies, Success(id)) ELSE replies \o InnerError(id)
    /\ UNCHANGED <<handlers, propagated, cmFrame>>

InitCommands ==
    /\ BreakerIdle
    /\ FramesIdle
    /\ ManagerIdle
    /\ OpsIdle
    /\ MemoryIdle
    /\ GatewayIdle
    /\ PingIdle
    /\ transport \in Transports
    /\ pageTimeout \in PageTimeouts
    /\ handlers = [id \in Cmds |-> NoHandler]
    /\ background = {}
    /\ replies = <<>>
    /\ propagated = {}

NextCommands ==
    \/ \E type \in AllCommandTypes, url \in Urls \cup {NoUrl} : Receive(type, url)
    \/ \E id \in Cmds, found \in BOOLEAN : SessionReturned(id, found)
    \/ \E id \in Cmds : PrimarySucceeds(id)
    \/ \E id \in Cmds, d \in 1..7 : PrimaryFails(id, d)
    \/ \E id \in Cmds : FallbackSucceeds(id)
    \/ \E id \in Cmds : FallbackFails(id)
    \/ \E id \in Cmds : OpSucceeds(id)
    \/ \E id \in Cmds : OpFails(id)
    \/ \E id \in Cmds : AttemptTimesOut(id)
    \/ \E id \in Cmds : BackoffEnds(id)
    \/ \E id \in Cmds : ResetSettles(id)
    \/ \E id \in Cmds, attempt \in 0..(NavRetries - 1), ok \in BOOLEAN :
          BackgroundSettles(id, attempt, ok)

SpecCommands == InitCommands /\ [][NextCommands]_vars

\* the ws dispatcher with messages of unknown type and with Sessions that
\* getSession has to recover
InitRouter == InitCommands /\ transport = "ws" /\ pageTimeout = 4

NextRouter ==
    \/ \E type \in AllCommandTypes, url \in Urls \cup {NoUrl} : Receive(type, url)
    \/ \E id \in Cmds, found \in BOOLEAN : SessionReturned(id, found)
    \/ \E id \in Cmds : PrimarySucceeds(id)
    \/ \E id \in Cmds, d \in 1..7 : PrimaryFails(id, d)
    \/ \E id \in Cmds : FallbackSucceeds(id)
    \/ \E id \in Cmds : FallbackFails(id)
    \/ \E id \in Cmds : OpSucceeds(id)
    \/ \E id \in Cmds : OpFails(id)
    \/ \E id \in Cmds : AttemptTimesOut(id)
    \/ \E id \in Cmds : BackoffEnds(id)
    \/ \E id \in Cmds, attempt \in 0..(NavRetries - 1), ok \in BOOLEAN :
          BackgroundSettles(id, attempt, ok)
    \/ \E type \in UnknownTypes : ReceiveUnknown(type)
    \/ \E id \in Cmds, found \in BOOLEAN : SessionRecovered(id, found)

SpecRouter == InitRouter /\ [][NextRouter]_vars

\* the positions in the channel's history of the replies to a command
RepliesTo(id) == {i \in 1..Len(replies) : replies[i].id = id}

\* handle* has been called for the command (a session was available)
Dispatched(id) ==
    handlers[id].pc \notin {"none", "getSession"} /\ handlers[id].outcome # "unavailable"

\* C28: the replies on a channel follow the order in which the commands were
\* received: when a handler replies to a command, every command received
\* before it (and handed to its handler) has been replied to already.
C28_RepliesInReceiveOrder ==
    \A j \in 1..Len(replies) :
        replies[j].by = "handler" =>
            \A id \in Cmds :
                id < replies[j].id /\ Dispatched(id) =>
                    \E i \in RepliesTo(id) : i < j

\* C29: no handler lets a failure of its browser operation out to its
\* caller, retry exhaustion and timeouts included: it returns after sending
\* an error envelope of its own type that carries recoverable: true, and it
\* sends no error reply without it.
C29_HandlersCatchAll ==
    /\ propagated = {}
    /\ \A id \in Cmds :
          handlers[id].outcome = "failed" => \E i \in RepliesTo(id) : replies[i] = ErrorEnvelope(id)
    /\ \A i \in 1..Len(replies) :
          replies[i].by = "handler" /\ replies[i].status = "error" => replies[i].recoverable

NavigationReplies(id) == {i \in RepliesTo(id) : replies[i].type = "navigation"}

\* C30: a navigate command gets exactly one navigation reply: never two, and
\* once its handler has ended, one success with the target url if an attempt
\* succeeded and one error otherwise.
C30_OneNavigationReply ==
    \A id \in Cmds :
        handlers[id].type = "navigate" =>
            /\ Cardinality(NavigationReplies(id)) <= 1
            /\ handlers[id].outcome = "ok" => \E i \in NavigationReplies(id) : replies[i] = Success(id)
            /\ handlers[id].outcome = "failed" =>
                  \E i \in NavigationReplies(id) : replies[i].status = "error"

\* C31: a message of unknown type gets exactly one reply, the error naming
\* its type with 'Unknown message type'; handling it performs no browser
\* operation and leaves the channel open; a heartbeat received after it is
\* answered with a heartbeat reply.
C31_UnknownTypeAnswered ==
    \A id \in Cmds :
        handlers[id].type \in UnknownTypes /\ handlers[id].pc = "done" =>
            /\ \A i \in RepliesTo(id) : replies[i] = UnknownType(id)
            /\ Cardinality(RepliesTo(id)) = 1
            /\ ~handlers[id].recovery
            /\ readyState = "OPEN"
            /\ \A h \in Cmds :
                  h > id /\ handlers[h].type = "heartbeat" /\ handlers[h].pc = "done" =>
                      \E i \in RepliesTo(h) : replies[i] = Heartbeat(h)

(***************************************************************************)
(* Connection setup of the ws server: authentication, activeConnections,   *)
(* session creation behind the circuit breaker, the close handler          *)
(***************************************************************************)

gwFrame == <<cbVars, frVars, mgVars, opVars, mmVars, cmVars, ppVars>>

\* sendError(ws, type, ...): sent only while ws.readyState === ws.OPEN
SendError(c, type) == IF channel[c] = "open" THEN Append(gwSent[c], type) ELSE gwSent[c]

\* the catch around the setup: error message, activeConnections.delete
\* (isAuthenticated holds from the add on), ws.close()
SetupFailed(c) ==
    /\ gwSent' = [gwSent EXCEPT ![c] = SendError(c, "connection")]
    /\ activeConnections' = activeConnections \ {c}
    /\ channel' = [channel EXCEPT ![c] = IF @ = "open" THEN "closed" ELSE @]
    /\ gwPc' = [gwPc EXCEPT ![c] = "failed"]

\* wss.on('connection'): without a token the handler answers and closes;
\* with one it adds the clientId and calls createSession through the
\* circuit breaker, which rejects at once when it is open
Connection(c, token, breaker) ==
    /\ channel[c] = "none"
    /\ IF ~token
          THEN /\ gwSent' = [gwSent EXCEPT ![c] = <<"auth">>]
               /\ channel' = [channel EXCEPT ![c] = "closed"]
               /\ gwPc' = [gwPc EXCEPT ![c] = "rejected"]
               /\ UNCHANGED <<activeConnections, gwLaunched>>
          ELSE IF breaker = "open"
          THEN /\ gwSent' = [gwSent EXCEPT ![c] = <<"connection">>]
               /\ channel' = [channel EXCEPT ![c] = "closed"]
               /\ gwPc' = [gwPc EXCEPT ![c] = "failed"]
               /\ UNCHANGED <<activeConnections, gwLaunched>>
          ELSE /\ activeConnections' = activeConnections \cup {c}
               /\ channel' = [channel EXCEPT ![c] = "open"]
               /\ gwPc' = [gwPc EXCEPT ![c] = "creating"]
               /\ gwLaunched' = [gwLaunched EXCEPT ![c] = TRUE]
               /\ UNCHANGED gwSent
    /\ UNCHANGED gwFrame

\* await wsCircuitBreaker.execute(() => createSession(clientId)) settles
CreateSettles(c, ok) ==
    /\ gwPc[c] = "creating"
    /\ IF ok
          THEN /\ gwPc' = [gwPc EXCEPT ![c] = "screencast"]
               /\ UNCHANGED <<activeConnections, channel, gwSent>>
          ELSE SetupFailed(c)
    /\ UNCHANGED <<gwLaunched, gwFrame>>

\* await browserManager.initializeScreencast(session.cdpSession) settles:
\* the handlers of the channel, ws.on('close') among them, are registered
InitScreencastSettles(c, ok) ==
    /\ gwPc[c] = "screencast"
    /\ IF ok
          THEN /\ gwPc' = [gwPc EXCEPT ![c] = "ready"]
               /\ UNCHANGED <<activeConnections, channel, gwSent>>
          ELSE SetupFailed(c)
    /\ UNCHANGED <<gwLaunched, gwFrame>>

\* the peer closes the channel: the 'close' event runs the handler if it is
\* registered by now
PeerCloses(c) ==
    /\ channel[c] = "open"
    /\ channel' = [channel EXCEPT ![c] = "gone"]
    /\ IF gwPc[c] = "ready"
          THEN /\ activeConnections' = activeConnections \ {c}
               /\ gwPc' = [gwPc EXCEPT ![c] = "closed"]
          ELSE UNCHANGED <<activeConnections, gwPc>>
    /\ UNCHANGED <<gwSent, gwLaunched, gwFrame>>

InitGateway ==
    /\ BreakerIdle
    /\ FramesIdle
    /\ ManagerIdle
    /\ OpsIdle
    /\ ServerIdle

NextGateway ==
    \/ \E c \in GwClients, token \in BOOLEAN, breaker \in {"closed", "open"} :
          Connection(c, token, breaker)
    \/ \E c \in GwClients, ok \in BOOLEAN : CreateSettles(c, ok)
    \/ \E c \in GwClients, ok \in BOOLEAN : InitScreencastSettles(c, ok)
    \/ \E c \in GwClients : PeerCloses(c)

SpecGateway == InitGateway /\ [][NextGateway]_vars

\* C32: a connection without a token launches no browser and is closed after
\* one error message; a connection whose session creation fails, or finds
\* the circuit breaker open, gets a connection error, is closed and is not
\* in activeConnections; activeConnections holds only clientIds of channels
\* that are authenticated and not closed.
C32_ConnectionSetup ==
    \A c \in GwClients :
        /\ gwPc[c] = "rejected" =>
              ~gwLaunched[c] /\ gwSent[c] = <<"auth">> /\ channel[c] = "closed"
        /\ gwPc[c] = "failed" =>
              /\ channel[c] = "gone" \/ gwSent[c] = <<"connection">>
              /\ channel[c] \in {"closed", "gone"}
              /\ c \notin activeConnections
        /\ c \in activeConnections =>
              channel[c] = "open" /\ gwPc[c] \in {"creating", "screencast", "ready"}

(***************************************************************************)
(* Keep-alive of a ws channel: the ping timer (30 s) and the dead-peer     *)
(* check (45 s), in units of 15 s. The client answers every ping it        *)
(* receives before the next unit begins                                    *)
(***************************************************************************)

PingPeriod == 2        \* setInterval(..., 30000)
CheckPeriod == 3       \* setInterval(..., 45000)

ppFrame == <<cbVars, frVars, mgVars, opVars, mmVars, cmVars, gwVars>>

\* the timer of the period is due at this instant and has not fired yet
Due(timer, period) == ppNow > 0 /\ ppNow % period = 0 /\ timer \notin ppFired

\* pingInterval fires: ws.ping() unless the outbound buffer is above 1 MB
PingTimer ==
    /\ ~terminated
    /\ Due("ping", PingPeriod)
    /\ ppFired' = ppFired \cup {"ping"}
    /\ pingInFlight' = IF ppBufferFull THEN pingInFlight ELSE TRUE
    /\ UNCHANGED <<ppNow, pongReceived, ppBufferFull, terminated, pongSinceCheck, ppFrame>>

\* ws.on('pong')
PongArrives ==
    /\ ~terminated
    /\ pingInFlight
    /\ pingInFlight' = FALSE
    /\ pongReceived' = TRUE
    /\ pongSinceCheck' = TRUE
    /\ UNCHANGED <<ppNow, ppFired, ppBufferFull, terminated, ppFrame>>

\* connectionHealthInterval fires
DeadPeerCheck ==
    /\ ~terminated
    /\ Due("check", CheckPeriod)
    /\ ppFired' = ppFired \cup {"check"}
    /\ terminated' = ~pongReceived
    /\ pongReceived' = FALSE
    /\ pongSinceCheck' = FALSE
    /\ UNCHANGED <<ppNow, pingInFlight, ppBufferFull, ppFrame>>

\* ws.bufferedAmount crosses 1 MB, either way
BufferChanges ==
    /\ ~terminated
    /\ ppBufferFull' = ~ppBufferFull
    /\ UNCHANGED <<ppNow, ppFired, pongReceived, pingInFlight, terminated, pongSinceCheck,
                   ppFrame>>

\* 15 s pass: the timers due at this instant have fired and the client has
\* answered the ping it received
PingClockAdvances ==
    /\ ~terminated
    /\ ppNow < MaxPingTime
    /\ ~Due("ping", PingPeriod)
    /\ ~Due("check", CheckPeriod)
    /\ ~pingInFlight
    /\ ppNow' = ppNow + 1
    /\ ppFired' = {}
    /\ UNCHANGED <<pongReceived, pingInFlight, ppBufferFull, terminated, pongSinceCheck,
                   ppFrame>>

InitPing ==
    /\ BreakerIdle
    /\ FramesIdle
    /\ ManagerIdle
    /\ OpsIdle
    /\ ServerIdle

NextPing ==
    \/ PingTimer
    \/ PongArrives
    \/ DeadPeerCheck
    \/ BufferChanges
    \/ PingClockAdvances

SpecPing == InitPing /\ [][NextPing]_vars

\* the dead-peer check runs in this step and is not the first one
LaterCheck == "check" \in ppFired' /\ "check" \notin ppFired /\ ppNow > CheckPeriod

\* C33: the dead-peer check terminates the channel exactly when no pong
\* arrived since the previous check, and a client that answers every ping
\* it receives is never terminated, also while pings are skipped because
\* the outbound buffer is above 1 MB.
C33_DeadPeerCheck ==
    [][/\ LaterCheck => (terminated' <=> ~pongSinceCheck)
       /\ ~terminated']_vars

(***************************************************************************)
(* Screencast frames: the ws server's frame queue and the socket.io        *)
(* server's direct emit, each with its Page.screencastFrameAck             *)
(***************************************************************************)

\* if (frameQueue.length > 10)
FRAME_QUEUE_MAX == 10

MaxFrames == 12        \* Page.screencastFrame events on the ws server
MaxFramesSio == 6      \* Page.screencastFrame events on the socket.io server
MaxSendErrors == 2     \* ws.send calls that throw in a run

Range(s) == {s[i] : i \in 1..Len(s)}

Count(s, x) == Cardinality({i \in 1..Len(s) : s[i] = x})

Increasing(s) == \A i, j \in 1..Len(s) : i < j => s[i] < s[j]

\* Number(frame.sessionId): CDP delivers the sessionId as an integer, which
\* Number() returns unchanged
NumberOf(sessionId) == sessionId

\* if (frameQueue.length > 10)
QueueFull(n) == n > FRAME_QUEUE_MAX

\* frameQueue.shift()
Shift(q) == Tail(q)

PushBack(frame, q) == Append(q, frame)

\* frameQueue.unshift(frame)
Unshift(frame, q) == <<frame>> \o q

\* the screencastFrame handler's enqueue: drop the head of a full queue, push
Enqueue(q, frame) == Append(IF QueueFull(Len(q)) THEN Shift(q) ELSE q, frame)

DroppedBy(q) ==
    IF QueueFull(Len(q)) THEN Range(q) \ Range(Shift(q)) ELSE {}

\* processFrameQueue(): it has no await, so it runs to its end in one step.
\* k frames are shifted and handed to ws.send before bufferedAmount is found
\* above the threshold (k = Len(q): never); the frames in F make ws.send throw
\* and are skipped.  The frame shifted when the buffer is full is put back.
ProcessFrameQueue(q, sending, open, k, F) ==
    IF sending \/ Len(q) = 0 \/ ~open
    THEN [queue |-> q, out |-> <<>>, threw |-> 0, retry |-> 0]
    ELSE [queue |-> IF k < Len(q)
                    THEN Unshift(q[k + 1], Shift(SubSeq(q, k + 1, Len(q))))
                    ELSE <<>>,
          out   |-> SelectSeq(SubSeq(q, 1, k), LAMBDA f : f \notin F),
          threw |-> Cardinality(F \cap Range(SubSeq(q, 1, k))),
          retry |-> IF k < Len(q) THEN 1 ELSE 0]

AcksOnlyIfOpen(a, sessionId, open) == IF open THEN Append(a, sessionId) ELSE a

\* "Always acknowledge the frame": cdpSession.send('Page.screencastFrameAck')
AckFrame(a, sessionId, open) == Append(a, sessionId)

InitFrames ==
    /\ BreakerIdle
    /\ ManagerIdle
    /\ OpsIdle
    /\ ServerIdle
    /\ server \in {"ws", "socketio"}
    /\ readyState = "OPEN"
    /\ bufferFull = FALSE
    /\ heapHigh = FALSE
    /\ frameQueue = <<>>
    /\ isSending = FALSE
    /\ retryTimers = 0
    /\ immediates = <<>>
    /\ emitted = 0
    /\ sent = <<>>
    /\ acks = <<>>
    /\ sendErrors = 0
    /\ dropped = {}

\* the outcomes of one processFrameQueue() run on queue q
Drains(q) ==
    {ProcessFrameQueue(q, isSending, readyState = "OPEN", k, F) :
        k \in (IF bufferFull THEN {0} ELSE 0..Len(q)),
        F \in {S \in SUBSET (IF bufferFull THEN {} ELSE Range(q)) :
                    sendErrors + Cardinality(S) <= MaxSendErrors}}

\* session.cdpSession.on('Page.screencastFrame') of the ws server
ScreencastFrameWs ==
    /\ server = "ws"
    /\ emitted < MaxFrames
    /\ LET frame == emitted + 1
           open  == readyState = "OPEN"
           q     == IF open THEN Enqueue(frameQueue, frame) ELSE frameQueue
       IN /\ emitted' = frame
          /\ dropped' = IF open THEN dropped \cup DroppedBy(frameQueue) ELSE dropped
          /\ \E r \in Drains(q) :
                /\ frameQueue' = r.queue
                /\ sent' = sent \o r.out
                /\ sendErrors' = sendErrors + r.threw
                /\ retryTimers' = retryTimers + r.retry
                /\ bufferFull' = (bufferFull \/ r.retry = 1)
          /\ acks' = AckFrame(acks, frame, open)
    /\ isSending' = FALSE
    /\ UNCHANGED <<server, readyState, heapHigh, immediates, cbVars, mgVars, opVars, svVars>>

\* setTimeout(() => processFrameQueue(), 100) fires
RetryTimer ==
    /\ retryTimers > 0
    /\ \E r \in Drains(frameQueue) :
          /\ frameQueue' = r.queue
          /\ sent' = sent \o r.out
          /\ sendErrors' = sendErrors + r.threw
          /\ retryTimers' = retryTimers - 1 + r.retry
          /\ bufferFull' = (bufferFull \/ r.retry = 1)
    /\ isSending' = FALSE
    /\ UNCHANGED <<server, readyState, heapHigh, immediates, emitted, acks, dropped, cbVars, mgVars, opVars, svVars>>

\* the client reads: ws.bufferedAmount falls below the threshold
BufferDrains ==
    /\ bufferFull
    /\ bufferFull' = FALSE
    /\ UNCHANGED <<server, readyState, heapHigh, frameQueue, isSending, retryTimers,
                   immediates, emitted, sent, acks, sendErrors, dropped, cbVars, mgVars, opVars, svVars>>

\* the channel leaves OPEN
ChannelCloses ==
    /\ readyState = "OPEN"
    /\ readyState' = "CLOSED"
    /\ UNCHANGED <<server, bufferFull, heapHigh, frameQueue, isSending, retryTimers,
                   immediates, emitted, sent, acks, sendErrors, dropped, cbVars, mgVars, opVars, svVars>>

\* session.cdpSession.on('Page.screencastFrame') of the socket.io server
ScreencastFrameSio ==
    /\ server = "socketio"
    /\ emitted < MaxFramesSio
    /\ LET frame == emitted + 1
       IN /\ emitted' = frame
          /\ IF heapHigh
                THEN /\ acks' = Append(acks, NumberOf(frame))
                     /\ UNCHANGED <<sent, immediates>>
                ELSE /\ sent' = Append(sent, frame)
                     /\ immediates' = Append(immediates, frame)
                     /\ UNCHANGED acks
    /\ UNCHANGED <<server, readyState, bufferFull, heapHigh, frameQueue, isSending,
                   retryTimers, sendErrors, dropped, cbVars, mgVars, opVars, svVars>>

\* the oldest setImmediate callback runs: the deferred ack is sent
RunImmediate ==
    /\ Len(immediates) > 0
    /\ acks' = Append(acks, NumberOf(Head(immediates)))
    /\ immediates' = Tail(immediates)
    /\ UNCHANGED <<server, readyState, bufferFull, heapHigh, frameQueue, isSending,
                   retryTimers, emitted, sent, sendErrors, dropped, cbVars, mgVars, opVars, svVars>>

\* heap usage crosses 90 percent, either way
HeapChanges ==
    /\ server = "socketio"
    /\ heapHigh' = ~heapHigh
    /\ UNCHANGED <<server, readyState, bufferFull, frameQueue, isSending, retryTimers,
                   immediates, emitted, sent, acks, sendErrors, dropped, cbVars, mgVars, opVars, svVars>>

NextFrames ==
    \/ ScreencastFrameWs
    \/ RetryTimer
    \/ BufferDrains
    \/ ChannelCloses
    \/ ScreencastFrameSio
    \/ RunImmediate
    \/ HeapChanges

SpecFrames == InitFrames /\ [][NextFrames]_vars

\* C6: the frameQueue never holds more than FRAME_QUEUE_MAX records, whatever
\* the sequence of frame events, drains and backpressure re-enqueues.
C6_QueueWithinMax == Len(frameQueue) <= FRAME_QUEUE_MAX

\* C7: frames go on the wire in emit order; a record dropped from the queue
\* is older than every record retained, and a record put back at the head
\* under backpressure stays ahead of every later frame.
C7_FramesInEmitOrder ==
    /\ Increasing(sent)
    /\ Increasing(frameQueue)
    /\ \A s \in Range(sent), q \in Range(frameQueue) : s < q
    /\ \A d \in dropped, q \in Range(frameQueue) : d < q

\* the queue overflowed under backpressure, then the drain resumed and sent
\* frames newer than the dropped ones, with frames still queued
C7_Witness ==
    /\ dropped # {}
    /\ Len(frameQueue) > 0
    /\ \E i \in 1..Len(sent) : \A d \in dropped : sent[i] > d

\* C8: every Page.screencastFrame event has exactly one ack attempt with its
\* sessionId (sent, or deferred by setImmediate and sent once it runs),
\* whether the frame was sent, queued, dropped or skipped.
C8_OneAckPerFrame ==
    /\ Range(acks) \subseteq 1..emitted
    /\ \A f \in 1..emitted : Count(acks, NumberOf(f)) + Count(immediates, f) = 1

\* frames arrived after the channel left OPEN and were skipped, others were
\* sent, are queued or made ws.send throw: all of them were acknowledged
C8_Witness ==
    /\ server = "ws"
    /\ readyState = "CLOSED"
    /\ Len(frameQueue) > 0
    /\ Len(sent) > 0
    /\ sendErrors > 0
    /\ emitted > Len(sent) + Len(frameQueue) + Cardinality(dropped) + sendErrors
    /\ Len(acks) = emitted

\* C9: acks are issued in CDP-emit order.
C9_AcksInEmitOrder == Increasing(acks)


(***************************************************************************)
(* ResilientBrowserManager                                                 *)
(*                                                                         *)
(* A suspended call is a record: op is the entry point ("create":          *)
(* createSession, "get": getSession, "probe": checkSessionHealth,          *)
(* "cleanup": cleanupSession, "all": a cleanupSession started by           *)
(* cleanupAll, "sweep": one started by cleanupStaleSessions), pc the await *)
(* it is suspended at, s the Session it                                    *)
(* captured, b the browser createSession holds, retries its local counter. *)
(* lastActivity is not tracked here.                                       *)
(***************************************************************************)

\* maxRetries (default 3, part_003 passes 3), scaled down
maxRetries == 2

\* maxHealthCheckFailures (default 5, the servers pass 3 and 5), scaled down
maxHealthCheckFailures == 2

Call(op, c, pc, s, b, r) ==
    [op |-> op, c |-> c, pc |-> pc, s |-> s, b |-> b, retries |-> r]

Awaiting == BagToSet(calls)

Spawned(call) == calls (+) SetToBag({call})

Returned(call) == calls (-) SetToBag({call})

Resumed(call, next) == (calls (-) SetToBag({call})) (+) SetToBag({next})

HasRoom == BagCardinality(calls) + Cardinality(vpCalls) < MaxCallsAwaiting

\* recoverSession is entered from getSession and from checkSessionHealth
Recovering(call) == call.op \in {"get", "probe"}

\* cleanupSession(clientId, removeFromMap): false only from recoverSession
RemoveFromMap(call) == ~Recovering(call)

Launched == {b \in Browsers : browser[b] # "none"}

MarksByClient(b) ==
    [s \in Browsers |-> IF owner[s] = owner[b] THEN FALSE ELSE isHealthy[s]]

\* browser.on('disconnected'): every Session of the map that uses this
\* browser is marked unhealthy
OnDisconnected(b) ==
    [isHealthy EXCEPT ![b] = IF \E c \in Clients : sessions[c] = b THEN FALSE ELSE @]

InitManager ==
    /\ BreakerIdle
    /\ FramesIdle
    /\ OpsIdle
    /\ ServerIdle
    /\ mode \in {"launch", "connect"}
    /\ sessions = [c \in Clients |-> 0]
    /\ healthCheckIntervals = [c \in Clients |-> 0]
    /\ activeTimers = {}
    /\ browser = [b \in Browsers |-> "none"]
    /\ page = [b \in Browsers |-> "none"]
    /\ owner = [b \in Browsers |-> 0]
    /\ isHealthy = [b \in Browsers |-> FALSE]
    /\ healthCheckFailures = [b \in Browsers |-> 0]
    /\ calls = EmptyBag
    /\ conn = [c \in Clients |-> "new"]
    /\ shutdown = "no"
    /\ probes = 0
    /\ cleaned = {}
    /\ faulted = FALSE
    /\ idle = {}
    /\ got = [c \in Clients |-> -1]
    /\ notices = [c \in Clients |-> 0]
    /\ viewport = [b \in Browsers |-> <<0, 0>>]
    /\ screencast = [b \in Browsers |-> NoCast]
    /\ vpCalls = {}
    /\ vpSeq = 0
    /\ vpResult = [n \in ViewportCalls |-> NoResult]

\* const newSession = this.sessions.get(clientId);
\* if (!newSession || !newSession.isHealthy) return null; return newSession
GetResult(c, map, healthy) == IF map[c] = 0 \/ ~healthy[map[c]] THEN 0 ELSE map[c]

\* recoverSession has returned to its caller: getSession returns its result
GetReturns(call, map, healthy) ==
    IF call.op = "get" THEN [got EXCEPT ![call.c] = GetResult(call.c, map, healthy)] ELSE got

\* the continuation of an awaited getSession runs before any other event
NoResultPending == \A c \in Clients : got[c] = -1

\* lastActivity is read only from the Sessions of the map
StillMapped(map) == idle \cap {map[c] : c \in Clients}

\* ---- createSession

\* a client channel is accepted: createSession(clientId) runs to
\* await this.launchBrowser()
Connect(c) ==
    /\ NoResultPending
    /\ shutdown = "no"
    /\ conn[c] = "new"
    /\ HasRoom
    /\ conn' = [conn EXCEPT ![c] = "open"]
    /\ calls' = Spawned(Call("create", c, "launch", 0, 0, 0))
    /\ UNCHANGED <<mode, sessions, healthCheckIntervals, activeTimers, browser, page,
                   owner, isHealthy, healthCheckFailures, shutdown, probes, cleaned,
                   faulted, gsVars, cbVars, frVars, opVars, vpVars, svVars>>

\* catch (error) with the test retries <= maxRetries: one attempt more
AttemptFailedOnceMore(call) ==
    /\ faulted' = TRUE
    /\ IF call.retries + 1 <= maxRetries
          THEN /\ calls' = Resumed(call, [call EXCEPT !.pc = "delay", !.b = 0,
                                                      !.retries = call.retries + 1])
               /\ UNCHANGED got
          ELSE /\ calls' = Returned(call)
               /\ got' = GetReturns(call, sessions, isHealthy)

\* catch (error) of createSession: retries++, then the backoff delay or the
\* final throw (which recoverSession swallows).  The browser of the failed
\* attempt is left as it is.
AttemptFailed(call) ==
    /\ faulted' = TRUE
    /\ IF call.retries + 1 < maxRetries
          THEN /\ calls' = Resumed(call, [call EXCEPT !.pc = "delay", !.b = 0,
                                                      !.retries = call.retries + 1])
               /\ UNCHANGED got
          ELSE /\ calls' = Returned(call)
               /\ got' = GetReturns(call, sessions, isHealthy)

\* await this.launchBrowser() settles
LaunchSettles(call) ==
    /\ NoResultPending
    /\ shutdown # "done"
    /\ call \in Awaiting
    /\ call.pc = "launch"
    /\ \/ /\ Launched # Browsers
          /\ LET b == CHOOSE x \in Browsers \ Launched : \A y \in Browsers \ Launched : x <= y
             IN /\ browser' = [browser EXCEPT ![b] = "open"]
                /\ owner' = [owner EXCEPT ![b] = call.c]
                /\ calls' = Resumed(call, [call EXCEPT !.pc = "newPage", !.b = b])
          /\ UNCHANGED <<faulted, got>>
       \/ /\ AttemptFailed(call)
          /\ UNCHANGED <<browser, owner>>
    /\ UNCHANGED <<mode, sessions, healthCheckIntervals, activeTimers, page, isHealthy,
                   healthCheckFailures, conn, shutdown, probes, cleaned, idle,
                   cbVars, frVars, opVars, vpVars, svVars>>

\* createSession(clientId, viewportWidth = 1440, viewportHeight = 1880): every
\* caller passes the clientId only; the launch variant sets 1280 x 1280
CreateViewport == IF mode = "connect" THEN <<1440, 1880>> ELSE <<1280, 1280>>

\* await this.createPage(browser, ...) settles: the page exists and
\* page.setViewport has run
NewPageSettles(call) ==
    /\ NoResultPending
    /\ shutdown # "done"
    /\ call \in Awaiting
    /\ call.pc = "newPage"
    /\ \/ /\ browser[call.b] = "open"
          /\ page' = [page EXCEPT ![call.b] = "open"]
          /\ viewport' = [viewport EXCEPT ![call.b] = CreateViewport]
          /\ calls' = Resumed(call, [call EXCEPT !.pc = "goto"])
          /\ UNCHANGED <<faulted, got>>
       \/ /\ AttemptFailed(call)
          /\ UNCHANGED <<page, viewport>>
    /\ UNCHANGED <<mode, sessions, healthCheckIntervals, activeTimers, browser, owner,
                   isHealthy, healthCheckFailures, conn, shutdown, probes, cleaned,
                   idle, notices, scVars, cbVars, frVars, opVars, svVars>>

\* session.set as the first statement after page.goto: the Session is put in
\* the map before its CDP session exists
GotoInstalls(call) ==
    /\ NoResultPending
    /\ shutdown # "done"
    /\ call \in Awaiting
    /\ call.pc = "goto"
    /\ \/ /\ browser[call.b] = "open"
          /\ sessions' = [sessions EXCEPT ![call.c] = call.b]
          /\ calls' = Resumed(call, [call EXCEPT !.pc = "createCDPSession"])
          /\ UNCHANGED <<faulted, got>>
       \/ /\ AttemptFailed(call)
          /\ UNCHANGED sessions
    /\ UNCHANGED <<mode, healthCheckIntervals, activeTimers, browser, page,
                   owner, isHealthy, healthCheckFailures, conn, shutdown, probes, cleaned,
                   idle, cbVars, frVars, opVars, vpVars, svVars>>

\* await page.goto('data:text/html,...') settles
GotoSettles(call) ==
    /\ NoResultPending
    /\ shutdown # "done"
    /\ call \in Awaiting
    /\ call.pc = "goto"
    /\ \/ /\ browser[call.b] = "open"
          /\ calls' = Resumed(call, [call EXCEPT !.pc = "createCDPSession"])
          /\ UNCHANGED <<faulted, got>>
       \/ AttemptFailed(call)
    /\ UNCHANGED <<mode, sessions, healthCheckIntervals, activeTimers, browser, page,
                   owner, isHealthy, healthCheckFailures, conn, shutdown, probes, cleaned,
                   idle, cbVars, frVars, opVars, vpVars, svVars>>

\* this.sessions.set(clientId, session)
SessionsSet(c, s) == [sessions EXCEPT ![c] = s]

\* startHealthMonitoring(clientId): a new timer; the map entry is overwritten
StartHealthMonitoring(c, timer) ==
    /\ activeTimers' = activeTimers \cup {timer}
    /\ healthCheckIntervals' = [healthCheckIntervals EXCEPT ![c] = timer]

\* (global as any).activeConnections?.get(clientId): the channel registered
\* for the clientId.  No code assigns global.activeConnections (the ws server
\* keeps a module-local Set of clientIds, the socket.io server registers the
\* browserManager only), so the optional chain yields undefined.
RegisteredChannel(c) == "undefined"

\* recoverSession after its createSession resolved:
\* if (ws && ws.readyState === 1) ws.send({type: 'session_recovered', ...})
RecoveryNotice(call) ==
    IF Recovering(call) /\ RegisteredChannel(call.c) # "undefined" /\ conn[call.c] = "open"
       THEN [notices EXCEPT ![call.c] = @ + 1]
       ELSE notices

\* the connection handler after createSession returned:
\* await browserManager.initializeScreencast(session.cdpSession, 1440, 1880).
\* Page.enable and Page.startScreencast are taken as one step.  A Session
\* installed by recoverSession gets no screencast.
ServerStartsScreencast(call) ==
    screencast' = IF call.op = "create"
                     THEN [screencast EXCEPT ![call.b] = InitializeScreencast(1440, 1880)]
                     ELSE screencast

\* await page.createCDPSession() settles; on success the Session is built,
\* put in the map and monitored, and createSession returns (to recoverSession,
\* which sends its notice, if it was the caller)
CreateCDPSessionSettles(call) ==
    /\ NoResultPending
    /\ shutdown # "done"
    /\ call \in Awaiting
    /\ call.pc = "createCDPSession"
    /\ \/ /\ browser[call.b] = "open"
          /\ isHealthy' = [isHealthy EXCEPT ![call.b] = TRUE]
          /\ healthCheckFailures' = [healthCheckFailures EXCEPT ![call.b] = 0]
          /\ sessions' = SessionsSet(call.c, call.b)
          /\ StartHealthMonitoring(call.c, call.b)
          /\ calls' = Returned(call)
          /\ got' = GetReturns(call, sessions', isHealthy')
          /\ idle' = StillMapped(sessions')
          /\ notices' = RecoveryNotice(call)
          /\ ServerStartsScreencast(call)
          /\ UNCHANGED faulted
       \/ /\ AttemptFailed(call)
          /\ UNCHANGED <<isHealthy, healthCheckFailures, sessions, activeTimers,
                         healthCheckIntervals, idle, notices, screencast>>
    /\ UNCHANGED <<mode, browser, page, owner, conn, shutdown, probes, cleaned,
                   viewport, vpCalls, vpSeq, vpResult, cbVars, frVars, opVars, svVars>>

\* await this.delay(1000 * retries) settles: the next attempt launches
DelaySettles(call) ==
    /\ NoResultPending
    /\ shutdown # "done"
    /\ call \in Awaiting
    /\ call.pc = "delay"
    /\ calls' = Resumed(call, [call EXCEPT !.pc = "launch"])
    /\ UNCHANGED <<mode, sessions, healthCheckIntervals, activeTimers, browser, page,
                   owner, isHealthy, healthCheckFailures, conn, shutdown, probes, cleaned,
                   faulted, gsVars, cbVars, frVars, opVars, vpVars, svVars>>

\* the browser's connection drops: 'disconnected' is emitted
BrowserDisconnects(b) ==
    /\ NoResultPending
    /\ shutdown # "done"
    /\ browser[b] = "open"
    /\ browser' = [browser EXCEPT ![b] = "disconnected"]
    /\ isHealthy' = OnDisconnected(b)
    /\ UNCHANGED <<mode, sessions, healthCheckIntervals, activeTimers, page, owner,
                   healthCheckFailures, calls, conn, shutdown, probes, cleaned, faulted,
                   gsVars, cbVars, frVars, opVars, vpVars, svVars>>

\* ---- cleanupSession

\* clearInterval(interval); this.healthCheckIntervals.delete(clientId)
StopHealthMonitoring(c) ==
    /\ activeTimers' = activeTimers \ {healthCheckIntervals[c]}
    /\ healthCheckIntervals' = [healthCheckIntervals EXCEPT ![c] = 0]

\* cleanupSession up to await session.cdpSession.send('Page.stopScreencast');
\* without a Session in the map it returns at once
CleanupSessionEnters(c, op) ==
    IF sessions[c] = 0
    THEN UNCHANGED <<calls, activeTimers, healthCheckIntervals>>
    ELSE /\ calls' = Spawned(Call(op, c, "stopScreencast", sessions[c], 0, 0))
         /\ StopHealthMonitoring(c)

\* the end of cleanupSession: the map entry of the clientId is deleted if
\* asked, and recoverSession goes on to createSession
CleanupSessionEnds(call) ==
    /\ cleaned' = cleaned \cup {call.s}
    /\ sessions' = IF RemoveFromMap(call) THEN [sessions EXCEPT ![call.c] = 0] ELSE sessions
    /\ idle' = StillMapped(sessions')
    /\ calls' = IF Recovering(call)
                THEN Resumed(call, Call(call.op, call.c, "launch", 0, 0, 0))
                ELSE Returned(call)

\* await cdpSession.send('Page.stopScreencast').catch(() => {}) settles
StopScreencastSettles(call) ==
    /\ NoResultPending
    /\ shutdown # "done"
    /\ call \in Awaiting
    /\ call.pc = "stopScreencast"
    /\ IF page[call.s] = "open"
       THEN /\ calls' = Resumed(call, [call EXCEPT !.pc = "pageClose"])
            /\ UNCHANGED <<sessions, cleaned, idle>>
       ELSE IF browser[call.s] = "open"
       THEN /\ calls' = Resumed(call, [call EXCEPT !.pc = "browserClose"])
            /\ UNCHANGED <<sessions, cleaned, idle>>
       ELSE CleanupSessionEnds(call)
    /\ UNCHANGED <<mode, healthCheckIntervals, activeTimers, browser, page, owner,
                   isHealthy, healthCheckFailures, conn, shutdown, probes, faulted,
                   got, cbVars, frVars, opVars, vpVars, svVars>>

\* await session.page.close() settles: it throws (swallowed) when the
\* browser is gone
PageCloseSettles(call) ==
    /\ NoResultPending
    /\ shutdown # "done"
    /\ call \in Awaiting
    /\ call.pc = "pageClose"
    /\ page' = [page EXCEPT ![call.s] = IF browser[call.s] = "open" THEN "closed" ELSE @]
    /\ IF browser[call.s] = "open"
       THEN /\ calls' = Resumed(call, [call EXCEPT !.pc = "browserClose"])
            /\ UNCHANGED <<sessions, cleaned, idle>>
       ELSE CleanupSessionEnds(call)
    /\ UNCHANGED <<mode, healthCheckIntervals, activeTimers, browser, owner, isHealthy,
                   healthCheckFailures, conn, shutdown, probes, faulted, got,
                   cbVars, frVars, opVars, vpVars, svVars>>

\* await session.browser.close() settles: the browser is closed and emits
\* 'disconnected', or it was gone already and the call throws (swallowed)
BrowserCloseSettles(call) ==
    /\ NoResultPending
    /\ shutdown # "done"
    /\ call \in Awaiting
    /\ call.pc = "browserClose"
    /\ browser' = [browser EXCEPT ![call.s] = IF @ = "open" THEN "closed" ELSE @]
    /\ isHealthy' = IF browser[call.s] = "open" THEN OnDisconnected(call.s) ELSE isHealthy
    /\ CleanupSessionEnds(call)
    /\ UNCHANGED <<mode, healthCheckIntervals, activeTimers, page, owner,
                   healthCheckFailures, conn, shutdown, probes, faulted, got,
                   cbVars, frVars, opVars, vpVars, svVars>>

\* the client channel closes: cleanupSession(clientId)
ChannelClose(c) ==
    /\ NoResultPending
    /\ shutdown # "done"
    /\ conn[c] = "open"
    /\ HasRoom
    /\ conn' = [conn EXCEPT ![c] = "closed"]
    /\ CleanupSessionEnters(c, "cleanup")
    /\ UNCHANGED <<mode, sessions, browser, page, owner, isHealthy, healthCheckFailures,
                   shutdown, probes, cleaned, faulted, gsVars, cbVars, frVars, opVars, vpVars, svVars>>

\* ---- recoverSession

\* recoverSession up to its first await: cleanupSession(clientId, false)
\* enters, or returns at once and createSession(clientId) starts
RecoverCall(op, c) ==
    IF sessions[c] = 0
    THEN Call(op, c, "launch", 0, 0, 0)
    ELSE Call(op, c, "stopScreencast", sessions[c], 0, 0)

RecoverTimers(c) ==
    IF sessions[c] = 0
    THEN UNCHANGED <<activeTimers, healthCheckIntervals>>
    ELSE StopHealthMonitoring(c)

\* session.lastActivity = Date.now()
Touch(s) == idle \ {s}

\* getSession(clientId): null without a Session; else lastActivity is
\* updated and a healthy Session is returned, while for one that is not
\* healthy the call runs recoverSession up to its first await
GetSession(c) ==
    /\ NoResultPending
    /\ shutdown # "done"
    /\ conn[c] = "open"
    /\ LET s == sessions[c]
       IN IF s = 0
          THEN /\ got' = [got EXCEPT ![c] = 0]
               /\ UNCHANGED <<idle, calls, activeTimers, healthCheckIntervals>>
          ELSE /\ idle' = Touch(s)
               /\ IF isHealthy[s]
                  THEN /\ got' = [got EXCEPT ![c] = s]
                       /\ UNCHANGED <<calls, activeTimers, healthCheckIntervals>>
                  ELSE /\ HasRoom
                       /\ calls' = Spawned(RecoverCall("get", c))
                       /\ RecoverTimers(c)
                       /\ UNCHANGED got
    /\ UNCHANGED <<mode, sessions, browser, page, owner, isHealthy, healthCheckFailures,
                   conn, shutdown, probes, cleaned, faulted, cbVars, frVars, opVars, vpVars, svVars>>

\* the caller of getSession goes on with the value returned
ResultTaken(c) ==
    /\ got[c] # -1
    /\ got' = [got EXCEPT ![c] = -1]
    /\ UNCHANGED <<mode, sessions, healthCheckIntervals, activeTimers, browser, page,
                   owner, isHealthy, healthCheckFailures, calls, conn, shutdown, probes,
                   cleaned, faulted, idle, cbVars, frVars, opVars, vpVars, svVars>>

\* the CDP session of Session s delivers Page.screencastFrame events: the
\* server started its screencast and put its frame handler on it
Streaming(s) == screencast[s] # NoCast

\* the frame handler's ack was rejected because the browser of its CDP
\* session is gone ('Session closed' / 'Target closed')
AckRejected(c) == \E s \in Browsers : owner[s] = c /\ Streaming(s) /\ browser[s] # "open"

\* the frame handler of the ws server after its ack was rejected:
\* const currentSession = await browserManager.getSession(clientId);
\* if (currentSession) currentSession.isHealthy = false
AckFailureHandled(c) ==
    /\ got[c] # -1
    /\ AckRejected(c)
    /\ got' = [got EXCEPT ![c] = -1]
    /\ isHealthy' = IF got[c] > 0 THEN [isHealthy EXCEPT ![got[c]] = FALSE] ELSE isHealthy
    /\ UNCHANGED <<mode, sessions, healthCheckIntervals, activeTimers, browser, page,
                   owner, healthCheckFailures, calls, conn, shutdown, probes,
                   cleaned, faulted, idle, cbVars, frVars, opVars, vpVars, svVars>>

\* Date.now() advances: the lastActivity of every Session lies in the past
ClockAdvances ==
    /\ NoResultPending
    /\ shutdown # "done"
    /\ idle' = idle \cup {sessions[c] : c \in {x \in Clients : sessions[x] # 0}}
    /\ idle' # idle
    /\ UNCHANGED <<mode, sessions, healthCheckIntervals, activeTimers, browser, page,
                   owner, isHealthy, healthCheckFailures, calls, conn, shutdown, probes,
                   cleaned, faulted, got, cbVars, frVars, opVars, vpVars, svVars>>

\* ---- updateViewport (connect variant only)

\* the width and height a set_viewport message asks for
Dims == {<<1440, 1880>>, <<800, 600>>}

\* an updateViewport call: its number, arguments, the Session it looked up,
\* the commands it has sent, and whether no other updateViewport call has
\* run at the same time
VpCall(n, c, s, dims, pc, cmds, alone) ==
    [n |-> n, c |-> c, s |-> s, dims |-> dims, pc |-> pc, cmds |-> cmds, alone |-> alone]

\* the manager variables updateViewport leaves alone
vpFrame == <<mode, sessions, healthCheckIntervals, activeTimers, browser, page, owner,
             isHealthy, healthCheckFailures, calls, conn, shutdown, probes, cleaned,
             faulted, idle, notices>>

\* the call goes on to its next await, having sent cmd
VpResumed(call, pc, cmds) ==
    vpCalls' = (vpCalls \ {call}) \cup {[call EXCEPT !.pc = pc, !.cmds = cmds]}

\* updateViewport returns or throws
VpReturns(call, status) ==
    /\ vpCalls' = vpCalls \ {call}
    /\ vpResult' = [vpResult EXCEPT ![call.n] =
                       [status |-> status, s |-> call.s, dims |-> call.dims,
                        alone |-> call.alone, cmds |-> call.cmds,
                        viewport |-> viewport[call.s], screencast |-> screencast[call.s]]]

NoStop(cmds) == cmds

\* await session.cdpSession.send('Page.stopScreencast')
StopScreencast(cmds) == Append(cmds, "Page.stopScreencast")

\* socket.on('set_viewport') after getSession returned a Session:
\* updateViewport(clientId, width, height) runs to
\* await session.page.setViewport({ width, height })
UpdateViewport(c, dims) ==
    /\ mode = "connect"
    /\ got[c] > 0
    /\ vpSeq < MaxViewportCalls
    /\ HasRoom
    /\ got' = [got EXCEPT ![c] = -1]
    /\ vpSeq' = vpSeq + 1
    /\ LET s == sessions[c]
       IN /\ vpCalls' = {[call EXCEPT !.alone = FALSE] : call \in vpCalls} \cup
                        {VpCall(vpSeq + 1, c, s, dims, "setViewport", <<"setViewport">>,
                                vpCalls = {})}
          /\ viewport' = IF browser[s] = "open" THEN [viewport EXCEPT ![s] = dims]
                                                ELSE viewport
    /\ UNCHANGED <<vpFrame, screencast, vpResult, cbVars, frVars, opVars, svVars>>

\* await session.page.setViewport settles: Page.stopScreencast goes out, or
\* the error is logged and thrown again
SetViewportSettles(call) ==
    /\ NoResultPending
    /\ call \in vpCalls
    /\ call.pc = "setViewport"
    /\ IF browser[call.s] = "open"
       THEN /\ VpResumed(call, "stopScreencast", StopScreencast(call.cmds))
            /\ screencast' = [screencast EXCEPT ![call.s] = NoCast]
            /\ UNCHANGED vpResult
       ELSE /\ VpReturns(call, "thrown")
            /\ UNCHANGED screencast
    /\ UNCHANGED <<vpFrame, got, viewport, vpSeq, cbVars, frVars, opVars, svVars>>

\* await cdpSession.send('Page.stopScreencast').catch(() => {}) settles:
\* initializeScreencast sends Page.enable
VpStopScreencastSettles(call) ==
    /\ NoResultPending
    /\ call \in vpCalls
    /\ call.pc = "stopScreencast"
    /\ VpResumed(call, "enable", Append(call.cmds, "Page.enable"))
    /\ UNCHANGED <<vpFrame, got, viewport, screencast, vpSeq, vpResult,
                   cbVars, frVars, opVars, svVars>>

\* await cdpSession.send('Page.enable') settles: Page.startScreencast goes
\* out with the new dimensions, or the error is thrown
VpEnableSettles(call) ==
    /\ NoResultPending
    /\ call \in vpCalls
    /\ call.pc = "enable"
    /\ IF browser[call.s] = "open"
       THEN /\ VpResumed(call, "startScreencast", Append(call.cmds, "Page.startScreencast"))
            /\ screencast' = [screencast EXCEPT ![call.s] =
                                 InitializeScreencast(call.dims[1], call.dims[2])]
            /\ UNCHANGED vpResult
       ELSE /\ VpReturns(call, "thrown")
            /\ UNCHANGED screencast
    /\ UNCHANGED <<vpFrame, got, viewport, vpSeq, cbVars, frVars, opVars, svVars>>

\* await cdpSession.send('Page.startScreencast', ...) settles:
\* updateViewport returns, or the error is thrown
VpStartScreencastSettles(call) ==
    /\ NoResultPending
    /\ call \in vpCalls
    /\ call.pc = "startScreencast"
    /\ VpReturns(call, IF browser[call.s] = "open" THEN "returned" ELSE "thrown")
    /\ UNCHANGED <<vpFrame, got, viewport, screencast, vpSeq, cbVars, frVars, opVars, svVars>>

\* ---- checkSessionHealth

\* catch (error) of checkSessionHealth; base is the bag of the other calls
ProbeFailed(c, s, base) ==
    LET n == healthCheckFailures[s] + 1
    IN /\ healthCheckFailures' = [healthCheckFailures EXCEPT ![s] = n]
       /\ IF n >= maxHealthCheckFailures
          THEN /\ isHealthy' = [isHealthy EXCEPT ![s] = FALSE]
               /\ calls' = base (+) SetToBag({RecoverCall("probe", c)})
               /\ RecoverTimers(c)
          ELSE /\ calls' = base
               /\ UNCHANGED <<isHealthy, activeTimers, healthCheckIntervals>>

\* browser.process() is null for a browser attached with puppeteer.connect
ProcessDead(s) == mode = "connect"

\* a health-probe timer of the client fires: checkSessionHealth(clientId)
\* up to await session.page.evaluate(() => true)
HealthCheckTick(c) ==
    /\ NoResultPending
    /\ shutdown # "done"
    /\ probes < MaxProbes
    /\ HasRoom
    /\ \E timer \in activeTimers : owner[timer] = c
    /\ probes' = probes + 1
    /\ LET s == sessions[c]
       IN IF s = 0
          THEN UNCHANGED <<calls, isHealthy, healthCheckFailures, activeTimers,
                           healthCheckIntervals>>
          ELSE IF browser[s] # "open" \/ ProcessDead(s)
          THEN ProbeFailed(c, s, calls)
          ELSE /\ calls' = Spawned(Call("probe", c, "evaluate", s, 0, 0))
               /\ UNCHANGED <<isHealthy, healthCheckFailures, activeTimers,
                              healthCheckIntervals>>
    /\ UNCHANGED <<mode, sessions, browser, page, owner, conn, shutdown, cleaned, faulted,
                   gsVars, cbVars, frVars, opVars, vpVars, svVars>>

\* await session.page.evaluate(() => true) settles
EvaluateSettles(call) ==
    /\ NoResultPending
    /\ shutdown # "done"
    /\ call \in Awaiting
    /\ call.pc = "evaluate"
    /\ \/ /\ browser[call.s] = "open"
          /\ page[call.s] = "open"
          /\ calls' = Resumed(call, [call EXCEPT !.pc = "runtimeEvaluate"])
          /\ UNCHANGED <<isHealthy, healthCheckFailures, activeTimers, healthCheckIntervals>>
       \/ ProbeFailed(call.c, call.s, Returned(call))
    /\ UNCHANGED <<mode, sessions, browser, page, owner, conn, shutdown, probes, cleaned,
                   faulted, gsVars, cbVars, frVars, opVars, vpVars, svVars>>

\* await session.cdpSession.send('Runtime.evaluate', ...) settles
RuntimeEvaluateSettles(call) ==
    /\ NoResultPending
    /\ shutdown # "done"
    /\ call \in Awaiting
    /\ call.pc = "runtimeEvaluate"
    /\ \/ /\ browser[call.s] = "open"
          /\ healthCheckFailures' = [healthCheckFailures EXCEPT ![call.s] = 0]
          /\ isHealthy' = [isHealthy EXCEPT ![call.s] = TRUE]
          /\ calls' = Returned(call)
          /\ UNCHANGED <<activeTimers, healthCheckIntervals>>
       \/ ProbeFailed(call.c, call.s, Returned(call))
    /\ UNCHANGED <<mode, sessions, browser, page, owner, conn, shutdown, probes, cleaned,
                   faulted, gsVars, cbVars, frVars, opVars, vpVars, svVars>>

\* ---- cleanupAll

\* cleanupAll up to await Promise.allSettled(cleanupPromises): the mapped
\* timers are cleared and a cleanupSession is started for every key
CleanupAll ==
    /\ NoResultPending
    /\ shutdown = "no"
    /\ LET keys == {c \in Clients : sessions[c] # 0}
       IN /\ BagCardinality(calls) + Cardinality(keys) <= MaxCallsAwaiting
          /\ calls' = calls (+) SetToBag({Call("all", c, "stopScreencast", sessions[c], 0, 0) :
                                            c \in keys})
    /\ activeTimers' = activeTimers \ {healthCheckIntervals[c] : c \in Clients}
    /\ healthCheckIntervals' = [c \in Clients |-> 0]
    /\ shutdown' = "cleaning"
    /\ UNCHANGED <<mode, sessions, browser, page, owner, isHealthy, healthCheckFailures,
                   conn, probes, cleaned, faulted, gsVars, cbVars, frVars, opVars, vpVars, svVars>>

\* every cleanup promise has settled: this.sessions.clear()
CleanupAllSettles ==
    /\ NoResultPending
    /\ shutdown = "cleaning"
    /\ \A call \in Awaiting : call.op # "all"
    /\ sessions' = [c \in Clients |-> 0]
    /\ idle' = {}
    /\ shutdown' = "done"
    /\ UNCHANGED <<mode, healthCheckIntervals, activeTimers, browser, page, owner,
                   isHealthy, healthCheckFailures, calls, conn, probes, cleaned, faulted,
                   got, cbVars, frVars, opVars, vpVars, svVars>>

NextManager ==
    \/ \E c \in Clients : Connect(c)
    \/ \E call \in Awaiting : LaunchSettles(call)
    \/ \E call \in Awaiting : NewPageSettles(call)
    \/ \E call \in Awaiting : GotoSettles(call)
    \/ \E call \in Awaiting : CreateCDPSessionSettles(call)
    \/ \E call \in Awaiting : DelaySettles(call)
    \/ \E b \in Browsers : BrowserDisconnects(b)
    \/ \E call \in Awaiting : StopScreencastSettles(call)
    \/ \E call \in Awaiting : PageCloseSettles(call)
    \/ \E call \in Awaiting : BrowserCloseSettles(call)
    \/ \E c \in Clients : ChannelClose(c)
    \/ \E c \in Clients : GetSession(c)
    \/ \E c \in Clients : ResultTaken(c)
    \/ ClockAdvances
    \/ \E c \in Clients : HealthCheckTick(c)
    \/ \E call \in Awaiting : EvaluateSettles(call)
    \/ \E call \in Awaiting : RuntimeEvaluateSettles(call)

\* the sessions of a running server: every operation but cleanupAll
Spec == InitManager /\ [][NextManager]_vars

\* a server that is told to shut down while clients connect and leave
NextShutdown ==
    \/ \E c \in Clients : Connect(c)
    \/ \E call \in Awaiting : LaunchSettles(call)
    \/ \E call \in Awaiting : NewPageSettles(call)
    \/ \E call \in Awaiting : GotoSettles(call)
    \/ \E call \in Awaiting : CreateCDPSessionSettles(call)
    \/ \E call \in Awaiting : DelaySettles(call)
    \/ \E b \in Browsers : BrowserDisconnects(b)
    \/ \E call \in Awaiting : StopScreencastSettles(call)
    \/ \E call \in Awaiting : PageCloseSettles(call)
    \/ \E call \in Awaiting : BrowserCloseSettles(call)
    \/ \E c \in Clients : ChannelClose(c)
    \/ CleanupAll
    \/ CleanupAllSettles

SpecShutdown == InitManager /\ [][NextShutdown]_vars

\* a client of the connect variant that resizes its viewport while its
\* browser may drop and be recovered
InitViewport == InitManager /\ mode = "connect"

NextViewport ==
    \/ \E c \in Clients : Connect(c)
    \/ \E call \in Awaiting : LaunchSettles(call)
    \/ \E call \in Awaiting : NewPageSettles(call)
    \/ \E call \in Awaiting : GotoSettles(call)
    \/ \E call \in Awaiting : CreateCDPSessionSettles(call)
    \/ \E call \in Awaiting : DelaySettles(call)
    \/ \E b \in Browsers : BrowserDisconnects(b)
    \/ \E call \in Awaiting : StopScreencastSettles(call)
    \/ \E call \in Awaiting : PageCloseSettles(call)
    \/ \E c \in Clients : GetSession(c)
    \/ \E c \in Clients : ResultTaken(c)
    \/ \E c \in Clients, dims \in Dims : UpdateViewport(c, dims)
    \/ \E call \in vpCalls : SetViewportSettles(call)
    \/ \E call \in vpCalls : VpStopScreencastSettles(call)
    \/ \E call \in vpCalls : VpEnableSettles(call)
    \/ \E call \in vpCalls : VpStartScreencastSettles(call)

SpecViewport == InitViewport /\ [][NextViewport]_vars

\* the ws server, whose frame handler calls getSession when an ack fails
NextAck ==
    \/ \E c \in Clients : Connect(c)
    \/ \E call \in Awaiting : LaunchSettles(call)
    \/ \E call \in Awaiting : NewPageSettles(call)
    \/ \E call \in Awaiting : GotoSettles(call)
    \/ \E call \in Awaiting : CreateCDPSessionSettles(call)
    \/ \E call \in Awaiting : DelaySettles(call)
    \/ \E b \in Browsers : BrowserDisconnects(b)
    \/ \E call \in Awaiting : StopScreencastSettles(call)
    \/ \E call \in Awaiting : PageCloseSettles(call)
    \/ \E call \in Awaiting : BrowserCloseSettles(call)
    \/ \E c \in Clients : ChannelClose(c)
    \/ \E c \in Clients : GetSession(c)
    \/ \E c \in Clients : ResultTaken(c)
    \/ \E c \in Clients : AckFailureHandled(c)

SpecAck == InitManager /\ [][NextAck]_vars

\* no manager call is suspended at an await
Quiescent == calls = EmptyBag

OpenBrowsersOf(c) == {b \in Browsers : owner[b] = c /\ browser[b] = "open"}

TimersOf(c) == {timer \in activeTimers : owner[timer] = c}

\* an open browser that neither the map nor a suspended call refers to: no
\* code path can close it any more
Orphaned(b) ==
    /\ browser[b] = "open"
    /\ \A c \in Clients : sessions[c] # b
    /\ \A call \in Awaiting : call.b # b /\ call.s # b

\* C1: recovery replaces a Session without overlap: at no time do two
\* browsers that are not closed belong to the same clientId.
C1_NoTwoOpenBrowsers == \A c \in Clients : Cardinality(OpenBrowsersOf(c)) <= 1

\* C2: concurrent getSession, cleanupSession and recoverSession calls on a
\* clientId are linearizable: once all calls have returned, and no
\* browser-side step failed, the open browsers are those of the session map,
\* as after every serial execution of these calls.
C2_Linearizable ==
    (Quiescent /\ ~faulted /\ shutdown = "no") =>
        \A b \in Browsers : browser[b] = "open" => \E c \in Clients : sessions[c] = b

\* C3: every browser createSession launched is eventually closed: no open
\* browser is ever out of reach of the map and of every running call.
C3_EveryBrowserClosable == \A b \in Browsers : ~Orphaned(b)

\* C4: an entry leaves the session map only after a cleanupSession run took
\* its Session through stopScreencast, page close and browser close.
C4_RemovedOnlyAfterCleanup ==
    [][\A c \in Clients :
          (sessions[c] # 0 /\ sessions'[c] = 0) => sessions[c] \in cleaned']_vars

\* C5: once all calls have returned, every Session of the map has exactly one
\* active health-probe timer, and a clientId without a Session has none.
C5_OneProbePerSession ==
    (Quiescent /\ shutdown = "no") =>
        \A c \in Clients :
            Cardinality(TimersOf(c)) = IF sessions[c] # 0 THEN 1 ELSE 0

\* a call of createSession made by recoverSession ends in this step
RecoveryEnds(call) ==
    /\ call \in Awaiting
    /\ Recovering(call)
    /\ call.pc \in {"launch", "newPage", "goto", "createCDPSession"}
    /\ calls' = Returned(call)

\* ... without having installed a Session: every attempt failed
RecoveryFails(call) ==
    /\ RecoveryEnds(call)
    /\ call.pc = "createCDPSession" => sessions'[call.c] # call.b

\* getSession(c) returns in this step without having awaited anything
ReturnsAtOnce(c) == got[c] = -1 /\ got'[c] # -1 /\ calls' = calls

\* getSession(c) starts a recovery in this step
StartsRecovery(c) ==
    \E call \in BagToSet(calls') :
        /\ call.op = "get"
        /\ call.c = c
        /\ CopiesIn(call, calls') > CopiesIn(call, calls)
        /\ call.retries = 0
        /\ call.pc \in {"stopScreencast", "launch"}
        /\ BagCardinality(calls') > BagCardinality(calls)

\* C16: getSession returns null when no Session exists; otherwise it updates
\* lastActivity, and for a Session that is not healthy it runs recoverSession
\* and returns the newly installed healthy Session, or null if the recovery
\* failed; it never returns a Session whose isHealthy is false.
C16_GetSessionContract ==
    [][\A c \in Clients :
        /\ ReturnsAtOnce(c) =>
              IF sessions[c] = 0
                 THEN got'[c] = 0
                 ELSE /\ got'[c] = sessions[c]
                      /\ isHealthy[sessions[c]]
                      /\ sessions[c] \notin idle'
        /\ StartsRecovery(c) =>
              /\ sessions[c] # 0
              /\ ~isHealthy[sessions[c]]
              /\ sessions[c] \notin idle'
        /\ \A call \in Awaiting :
              (call.op = "get" /\ call.c = c /\ RecoveryEnds(call)) =>
                  IF RecoveryFails(call)
                     THEN got'[c] = 0
                     ELSE got'[c] = call.b /\ isHealthy'[call.b]
        /\ got'[c] > 0 => isHealthy'[got'[c]]]_vars

\* C17: when the createSession step of recoverSession fails after all
\* retries, the clientId's entry is removed from the session map.
C17_FailedRecoveryRemovesEntry ==
    [][\A call \in Awaiting : RecoveryFails(call) => sessions'[call.c] = 0]_vars

\* C18: once the create / recover / cleanup operations have returned, the
\* map holds no entry whose browser handle is disconnected or closed (an
\* entry whose browser dropped and that no operation has handled since is
\* not counted).
C18_NoDeadEntry ==
    (Quiescent /\ shutdown = "no") =>
        \A c \in Clients :
            sessions[c] # 0 => (browser[sessions[c]] = "open" \/ sessions[c] \notin cleaned)

ProbeRecoveries(c, bag) ==
    {call \in BagToSet(bag) :
        call.op = "probe" /\ call.c = c /\ call.pc \notin {"evaluate", "runtimeEvaluate"}}

\* a probe of Session s ends in this step, or goes on to recoverSession
ProbeSettles(call) ==
    /\ call \in Awaiting
    /\ call.op = "probe"
    /\ call.pc \in {"evaluate", "runtimeEvaluate"}
    /\ CopiesIn(call, calls') < CopiesIn(call, calls)
    /\ \A next \in BagToSet(calls') :
          (next.op = "probe" /\ next.pc = "runtimeEvaluate") =>
              CopiesIn(next, calls') <= CopiesIn(next, calls)

\* C20: a successful probe sets healthCheckFailures = 0 and isHealthy = true,
\* a failed probe adds one to healthCheckFailures; when the count reaches
\* maxHealthCheckFailures isHealthy becomes false and exactly one
\* recoverSession invocation results, overlapping probes included; the
\* Session present after the recovery has healthCheckFailures = 0.
C20_HealthProbe ==
    [][\A c \in Clients :
        /\ \A call \in Awaiting :
              (call.c = c /\ ProbeSettles(call)) =>
                  \/ healthCheckFailures'[call.s] = 0 /\ isHealthy'[call.s]
                  \/ healthCheckFailures'[call.s] = healthCheckFailures[call.s] + 1
        /\ \A s \in Browsers :
              (owner[s] = c /\ healthCheckFailures'[s] > healthCheckFailures[s]
                            /\ healthCheckFailures'[s] >= maxHealthCheckFailures) =>
                  /\ ~isHealthy'[s]
                  /\ ProbeRecoveries(c, calls') # {}
        /\ \A r1, r2 \in ProbeRecoveries(c, calls') : r1 = r2 /\ CopiesIn(r1, calls') = 1
        /\ \A call \in Awaiting :
              (call.op = "probe" /\ call.c = c /\ RecoveryEnds(call) /\ sessions'[c] # 0) =>
                  healthCheckFailures'[sessions'[c]] = 0]_vars

\* a call of createSession made by recoverSession installs its Session
RecoverySucceeds(call) == RecoveryEnds(call) /\ ~RecoveryFails(call)

\* C22: the viewport survives a recovery: the page of the Session that
\* recoverSession installs has the viewport of the Session it replaces.
C22_ViewportSurvivesRecovery ==
    [][\A call \in Awaiting :
          (RecoverySucceeds(call) /\ sessions[call.c] # 0) =>
              viewport'[call.b] = viewport[sessions[call.c]]]_vars

\* the screencast commands among the commands of a call
ScreencastCmds(cmds) ==
    SelectSeq(cmds, LAMBDA cmd : cmd \in {"Page.stopScreencast", "Page.startScreencast"})

\* every Page.startScreencast comes after a Page.stopScreencast
StopBeforeStart(cmds) ==
    \A i \in DOMAIN cmds :
        cmds[i] = "Page.startScreencast" =>
            \E j \in 1..(i - 1) : cmds[j] = "Page.stopScreencast"

\* call k and the next call both returned, neither overlapped another
\* updateViewport call, and they had the same Session and dimensions
ConsecutiveCalls(k, m) ==
    /\ m = k + 1
    /\ vpResult[k].status = "returned" /\ vpResult[m].status = "returned"
    /\ vpResult[k].alone /\ vpResult[m].alone
    /\ vpResult[k].s = vpResult[m].s
    /\ vpResult[k].dims = vpResult[m].dims

\* C23: updateViewport is idempotent: the second of two consecutive calls with
\* the same (w, h) leaves the page viewport and the screencast parameters as
\* the first did and sends exactly one stopScreencast followed by one
\* startScreencast; every call sends stopScreencast before startScreencast.
C23_UpdateViewportIdempotent ==
    /\ \A call \in vpCalls : StopBeforeStart(call.cmds)
    /\ \A n \in ViewportCalls : StopBeforeStart(vpResult[n].cmds)
    /\ \A k, m \in ViewportCalls :
          ConsecutiveCalls(k, m) =>
              /\ vpResult[m].viewport = vpResult[k].viewport
              /\ vpResult[m].screencast = vpResult[k].screencast
              /\ vpResult[m].viewport = vpResult[m].dims
              /\ ScreencastCmds(vpResult[m].cmds) =
                     <<"Page.stopScreencast", "Page.startScreencast">>

C23_Witness ==
    /\ ConsecutiveCalls(1, 2)
    /\ vpResult[2].dims = <<800, 600>>
    /\ vpResult[2].screencast = Cast(50, 800, 600, 2)
    /\ vpCalls = {}

\* browser b emits 'disconnected' in this step
Disconnected(b) == browser[b] = "open" /\ browser'[b] \in {"disconnected", "closed"}

\* C26: when a browser emits 'disconnected', exactly the Sessions of the map
\* that use this browser become unhealthy; a Session installed for the same
\* clientId with another browser is left as it was.
C26_DisconnectMarksItsSessions ==
    [][\A b \in Browsers :
          Disconnected(b) =>
              \A s \in Browsers :
                  isHealthy'[s] = IF s = b /\ (\E c \in Clients : sessions[c] = b)
                                     THEN FALSE
                                     ELSE isHealthy[s]]_vars

\* the old browser dropped after its Session had been replaced: it was
\* not in the map any more, so its own flag is still set
C26_Witness ==
    \E c \in Clients : \E old, new \in Browsers :
        /\ old # new
        /\ owner[old] = c /\ owner[new] = c
        /\ sessions[c] = new
        /\ browser[new] = "open" /\ isHealthy[new]
        /\ browser[old] = "disconnected" /\ isHealthy[old]

\* the frame handler's getSession has returned and the handler writes
\* isHealthy in this step
AckFailureMarks(c) == got[c] # -1 /\ got'[c] = -1 /\ isHealthy' # isHealthy

\* C27: the late completion of an operation started against the old Session
\* never mutates the new one: a screencastFrameAck that fails on the old CDP
\* session marks only the Session that owns this CDP session unhealthy.
C27_AckFailureMarksOwner ==
    [][\A c \in Clients :
          AckFailureMarks(c) =>
              \A s \in Browsers :
                  (isHealthy[s] /\ ~isHealthy'[s]) =>
                      (owner[s] = c /\ Streaming(s) /\ browser[s] # "open")]_vars

\* C21: every successful recoverSession whose client channel is open sends
\* one session_recovered notice on that channel.
C21_RecoveryNoticeSent ==
    [][\A call \in Awaiting :
          (RecoverySucceeds(call) /\ conn[call.c] = "open") =>
              notices'[call.c] = notices[call.c] + 1]_vars

\* ---- createSession's attempts (part_006:37-76)

\* the awaits of one attempt of createSession
AttemptPcs == {"launch", "newPage", "goto", "createCDPSession"}

\* the attempt of this call succeeds in this step: the Session is built and
\* createSession returns it
AttemptSucceeds(call) ==
    /\ call \in Awaiting
    /\ call.pc = "createCDPSession"
    /\ calls' = Returned(call)
    /\ isHealthy'[call.b]
    /\ ~isHealthy[call.b]

\* an await of the attempt rejects in this step and the loop goes on to the
\* delay before the next attempt
AttemptRetried(call) ==
    /\ call \in Awaiting
    /\ call.pc \in AttemptPcs
    /\ calls' = Resumed(call, [call EXCEPT !.pc = "delay", !.b = 0,
                                           !.retries = call.retries + 1])

\* an await of the attempt rejects in this step and createSession throws
\* 'Failed to create browser session after ${retries} attempts: ...', the
\* lastError of the message being the error caught in this step
CreateThrows(call) ==
    /\ call \in Awaiting
    /\ call.pc \in AttemptPcs
    /\ calls' = Returned(call)
    /\ ~AttemptSucceeds(call)

\* C39: a Session becomes visible in the map only after its browser, its
\* page (with the black page loaded) and its CDP session were all created:
\* an entry is put in the map only by the step in which createCDPSession
\* resolves for the browser and page of that very attempt, every entry has
\* its handles, and an attempt that fails part-way leaves the map as it was.
C39_VisibleWhenComplete ==
    [][/\ \A c \in Clients :
             (sessions'[c] # sessions[c] /\ sessions'[c] # 0) =>
                 \E call \in Awaiting :
                     /\ AttemptSucceeds(call)
                     /\ call.c = c
                     /\ call.b = sessions'[c]
                     /\ browser[call.b] = "open"
                     /\ page[call.b] = "open"
       /\ \A c \in Clients :
             sessions'[c] # 0 => browser'[sessions'[c]] # "none" /\ page'[sessions'[c]] # "none"
       /\ \A call \in Awaiting :
             (AttemptRetried(call) \/ CreateThrows(call)) => sessions' = sessions]_vars

\* an attempt of a recovery failed after its page had been created, with
\* the old Session still in the map: the entry was not replaced
C39_Witness ==
    \E c \in Clients : \E old, new \in Browsers :
        /\ old # new
        /\ sessions[c] = old
        /\ owner[new] = c
        /\ page[new] = "open"
        /\ ~isHealthy[new]
        /\ \E call \in Awaiting : call.c = c /\ call.pc = "delay" /\ call.retries = 1

\* C36: createSession makes at most maxRetries attempts; it returns the
\* Session as soon as an attempt succeeds (the Session is in the map and
\* monitored); it throws exactly when the attempt that fails is attempt
\* number maxRetries, and then the map and the health-probe timers are as
\* they were before the step.
C36_CreateSessionAttempts ==
    [][\A call \in Awaiting :
          /\ call.pc \in AttemptPcs \cup {"delay"} => call.retries < maxRetries
          /\ AttemptSucceeds(call) =>
                 /\ sessions'[call.c] = call.b
                 /\ healthCheckIntervals'[call.c] = call.b
                 /\ call.b \in activeTimers'
          /\ CreateThrows(call) =>
                 /\ call.retries + 1 = maxRetries
                 /\ UNCHANGED <<sessions, activeTimers, healthCheckIntervals>>
          /\ AttemptRetried(call) =>
                 /\ call.retries + 1 < maxRetries
                 /\ UNCHANGED <<sessions, activeTimers, healthCheckIntervals>>]_vars

\* the createSession of a connecting client threw after maxRetries attempts
\* that each got as far as a browser: no Session, no timer
C36_Witness ==
    \E c \in Clients :
        /\ conn[c] = "open"
        /\ calls = EmptyBag
        /\ sessions[c] = 0
        /\ activeTimers = {}
        /\ Cardinality({b \in Browsers : owner[b] = c /\ browser[b] # "none"}) = maxRetries

\* the health-probe timer of client c fires in this step while the browser
\* of its Session is connected
TickOnConnected(c) ==
    /\ probes' = probes + 1
    /\ sessions[c] # 0
    /\ browser[sessions[c]] = "open"

\* C38: a probe of a Session whose browser is connected counts no failure
\* before page.evaluate and Runtime.evaluate have run, so a Session whose
\* evaluations succeed at every probe stays healthy and no recovery is
\* started for it, with a launched browser and with an attached one alike.
C38_HealthyNeverRecovered ==
    [][\A c \in Clients :
          TickOnConnected(c) =>
              /\ healthCheckFailures' = healthCheckFailures
              /\ isHealthy' = isHealthy
              /\ \A call \in BagToSet(calls') :
                     CopiesIn(call, calls') > CopiesIn(call, calls) => call.pc = "evaluate"]_vars

\* a cleanupSession(clientId) with removeFromMap = true returns in this step
CleanupReturns(call) ==
    /\ call \in Awaiting
    /\ RemoveFromMap(call)
    /\ call.pc \in {"stopScreencast", "pageClose", "browserClose"}
    /\ calls' = Returned(call)

\* cleanupSession(c) is entered for a Session of the map in this step
CleanupEntered(c) == conn[c] = "open" /\ conn'[c] = "closed" /\ sessions[c] # 0

\* await Promise.allSettled(cleanupPromises) resolves and cleanupAll returns
CleanupAllCompletes == shutdown = "cleaning" /\ shutdown' = "done"

\* cleanupSession stops the health probe before its first await
C35_ProbeStoppedFirst ==
    [][\A c \in Clients :
          CleanupEntered(c) =>
              /\ healthCheckIntervals[c] \notin activeTimers'
              /\ healthCheckIntervals'[c] = 0]_vars

\* cleanupSession returns with the entry of its clientId removed from the
\* map, whichever of its close steps failed
C35_EntryRemoved ==
    [][\A call \in Awaiting : CleanupReturns(call) => sessions'[call.c] = 0]_vars

\* C35: cleanupSession never throws, stops the health probe first and with
\* removeFromMap = true removes the entry even if every close step failed;
\* when cleanupAll completes, the session map is empty and no health-probe
\* timer is active.
C35_CleanupAllLeavesNothing ==
    [][/\ \A c \in Clients :
             CleanupEntered(c) =>
                 /\ healthCheckIntervals[c] \notin activeTimers'
                 /\ healthCheckIntervals'[c] = 0
       /\ \A call \in Awaiting : CleanupReturns(call) => sessions'[call.c] = 0
       /\ CleanupAllCompletes =>
              /\ \A c \in Clients : sessions'[c] = 0
              /\ activeTimers' = {}]_vars

\* ---- cleanupStaleSessions (part_006:396-413)

\* now - session.lastActivity > this.options.sessionTimeout, with a
\* sessionTimeout shorter than one advance of the clock: the Session is
\* stale as soon as its lastActivity lies in the past
Stale(s) == s \in idle

\* one iteration of the sweep's loop over this.sessions.entries(): a stale
\* Session is handed to await this.cleanupSession(clientId), which runs to
\* its first await (op "sweep"); an entry that is not stale is skipped.  The
\* iterations for different clientIds are separated by that await and are
\* taken as separate steps.
SweepVisits(c) ==
    /\ NoResultPending
    /\ shutdown # "done"
    /\ sessions[c] # 0
    /\ Stale(sessions[c])
    /\ HasRoom
    /\ CleanupSessionEnters(c, "sweep")
    /\ UNCHANGED <<mode, sessions, browser, page, owner, isHealthy, healthCheckFailures,
                   conn, shutdown, probes, cleaned, faulted, gsVars, cbVars, frVars, opVars,
                   vpVars, svVars>>

\* an idle client whose Session goes stale, is swept, and whose later
\* messages run getSession
NextSweep ==
    \/ \E c \in Clients : Connect(c)
    \/ \E call \in Awaiting : LaunchSettles(call)
    \/ \E call \in Awaiting : NewPageSettles(call)
    \/ \E call \in Awaiting : GotoSettles(call)
    \/ \E call \in Awaiting : CreateCDPSessionSettles(call)
    \/ \E call \in Awaiting : DelaySettles(call)
    \/ \E b \in Browsers : BrowserDisconnects(b)
    \/ \E call \in Awaiting : StopScreencastSettles(call)
    \/ \E call \in Awaiting : PageCloseSettles(call)
    \/ \E call \in Awaiting : BrowserCloseSettles(call)
    \/ \E c \in Clients : GetSession(c)
    \/ \E c \in Clients : ResultTaken(c)
    \/ ClockAdvances
    \/ \E c \in Clients : SweepVisits(c)

SpecSweep == InitManager /\ [][NextSweep]_vars

\* the sweep hands the Session of client c to cleanupSession in this step
SweepStarts(c) ==
    \E call \in BagToSet(calls') :
        /\ call.op = "sweep"
        /\ call.c = c
        /\ call.pc = "stopScreencast"
        /\ CopiesIn(call, calls') > CopiesIn(call, calls)
        /\ BagCardinality(calls') > BagCardinality(calls)

\* the cleanupSession started by the sweep returns in this step
SweepReturns(call) ==
    /\ call \in Awaiting
    /\ call.op = "sweep"
    /\ calls' = Returned(call)

\* getSession(c) runs in this step for a clientId that has a Session
GetSessionCalled(c) == sessions[c] # 0 /\ (ReturnsAtOnce(c) \/ StartsRecovery(c))

\* the sweep hands only stale Sessions to cleanupSession
C34_SweepTestsStale ==
    [][\A c \in Clients : SweepStarts(c) => Stale(sessions[c])]_vars

\* getSession advances lastActivity
C34_GetSessionTouches ==
    [][\A c \in Clients : GetSessionCalled(c) => ~(sessions[c] \in idle')]_vars

\* C34: the sweep cleans up a Session only if it is stale at the sweep, a
\* Session that leaves the map through the sweep is the stale one the sweep
\* cleaned up, and getSession advances the lastActivity of the Session of
\* its clientId.
C34_SweepRemovesStaleOnly ==
    [][/\ \A c \in Clients : SweepStarts(c) => Stale(sessions[c])
       /\ \A c \in Clients : GetSessionCalled(c) => ~(sessions[c] \in idle')
       /\ \A call \in Awaiting :
             SweepReturns(call) =>
                 /\ sessions'[call.c] = 0
                 /\ sessions[call.c] \in {0, call.s}]_vars

\* C37: after a successful recoverSession for a client whose channel is
\* open, the CDP session of the new Session has its screencast started and
\* the server's frame handler bound to it, so the frames of the new browser
\* reach the client.
C37_RecoveredSessionStreams ==
    [][\A call \in Awaiting :
          (RecoverySucceeds(call) /\ conn[call.c] = "open") =>
              Streaming(sessions'[call.c])]_vars

====
